---- MODULE Spec2Model ----
(***************************************************************************)
(* Model of the conversational orchestration core of hanna-med-ma:         *)
(*   - ChatGateway (chat.gateway.ts): connections and the three turns      *)
(*   - ChatService (chat.service.ts): sessions, messages, send /           *)
(*     regenerate / edit, the HTTP fallback and its detached reply         *)
(*   - AiService / RouterAgent: one agent run per turn                     *)
(*   - IngestService.handleRpaError                                        *)
(*   - PatientSyncService, the query tools and raw-data ingestion          *)
(* Text is modelled as a sequence of one-character strings.                *)
(***************************************************************************)
EXTENDS Integers, Sequences, FiniteSets, TLC

(***************************************************************************)
(* Bounds                                                                  *)
(***************************************************************************)
\* cap on the auto-increment Message id
MaxMsgId == 3
\* cap on the number of stream items the agent runs of one behaviour yield
MaxStream == 2
\* cap on the number of entries of one census
MaxCensus == 2
\* cap on the number of raw-data ingestions of one behaviour
MaxIngest == 2
\* cap on the Message id where two turns of one doctor overlap
MaxRaceId == 4
\* cap on the Message id where two regenerate turns of one doctor overlap
MaxRegenId == 6

(***************************************************************************)
(* Program constants                                                       *)
(***************************************************************************)
\* `take: 10` of the history query and `slice(-10)` of the agent
HistoryTake == 10
\* getSession(doctorId, limit: number = 5, cursor?)
DefaultLimit == 5

Doctors == {1, 2}
Conns == {"c1", "c2"}
Slots == {1, 2}
\* handshake credentials: none, an invalid one, a valid one of a doctor,
\* and a valid one that resolves to no (non-deleted) doctor
Tokens == {"none", "bad", "tok1", "tok2", "gone"}
UserContents == {<<"a">>, <<"b">>}
ToolNames == {"query_patient_list", "find_patient_context"}
Chunks == {"x", " "}

\* RouterAgent: text returned when the accumulated text is blank
FallbackText == <<"F">>
\* AiService: text returned when the agent run throws
ApologyText == <<"E">>
\* IngestService.handleRpaError: content of the error message
RpaErrorText == <<"R">>

VARIABLES sock, connectedDoctors, sessions, messages, nextId, task, streamed,
          inbox,
          patients, rawData, nextRid, now, sync, ingest, ret, prev

chatVars ==
  <<sock, connectedDoctors, sessions, messages, nextId, task, streamed, inbox>>
dirVars == <<patients, rawData, nextRid, now, sync, ingest, ret, prev>>

vars == <<chatVars, dirVars>>

(***************************************************************************)
(* Helpers                                                                 *)
(***************************************************************************)
RECURSIVE SortById(_)
\* the rows of S as a sequence, oldest (smallest id / createdAt) first
SortById(S) ==
  IF S = {} THEN <<>>
  ELSE LET m == CHOOSE x \in S : \A y \in S : x.id <= y.id
       IN <<m>> \o SortById(S \ {m})

Reverse(s) == [i \in 1..Len(s) |-> s[Len(s) + 1 - i]]

\* first n elements of s
Take(s, n) == IF Len(s) <= n THEN s ELSE SubSeq(s, 1, n)

\* s.slice(-n)
SliceLast(s, n) == IF Len(s) <= n THEN s ELSE SubSeq(s, Len(s) - n + 1, Len(s))

\* String.prototype.trim() applied to a blank test: !text.trim()
IsBlank(text) == \A i \in 1..Len(text) : text[i] = " "

Ev(type, arg, msg) == [type |-> type, arg |-> arg, msg |-> msg]

(***************************************************************************)
(* Persistence queries of ChatService                                      *)
(***************************************************************************)
SessionMsgs(msgs, d) == {m \in msgs : m.sessionId = d}

\* findFirst({role: ASSISTANT}, orderBy createdAt desc): id or 0
LastAssistant(msgs, d) ==
  LET A == {m \in SessionMsgs(msgs, d) : m.role = "ASSISTANT"}
  IN IF A = {} THEN 0
     ELSE (CHOOSE m \in A : \A y \in A : y.id <= m.id).id

\* findFirst({role: USER, createdAt <= at}, orderBy createdAt desc): id or 0
LastUserAtOrBefore(msgs, d, at) ==
  LET U == {m \in SessionMsgs(msgs, d) : m.role = "USER" /\ m.id <= at}
  IN IF U = {} THEN 0
     ELSE (CHOOSE m \in U : \A y \in U : y.id <= m.id).id

MsgById(msgs, i) == CHOOSE m \in msgs : m.id = i

\* findMany(orderBy createdAt desc, take 10).reverse().map(role, content)
ChatHistory(msgs, d) ==
  LET desc == Reverse(SortById(SessionMsgs(msgs, d)))
      page == Reverse(Take(desc, HistoryTake))
  IN [i \in 1..Len(page) |-> [role |-> page[i].role, content |-> page[i].content]]

\* RouterAgent: chatHistory.slice(-10) followed by the new HumanMessage
AgentMessages(history, userMessage) ==
  SliceLast(history, HistoryTake) \o <<[role |-> "USER", content |-> userMessage]>>

NewMsg(i, d, role, content) ==
  [id |-> i, sessionId |-> d, role |-> role, content |-> content]

(***************************************************************************)
(* Task records: one per handler invocation in flight                      *)
(***************************************************************************)
IdleTask ==
  [kind |-> "none", pc |-> "idle", doctorId |-> 0, content |-> <<>>,
   la |-> 0, lu |-> 0, userMessage |-> <<>>, history |-> <<>>,
   modelInput |-> <<>>, fullText |-> <<>>,
   toolsNotified |-> {}, aiText |-> <<>>, events |-> <<>>, err |-> "none",
   userId |-> 0, asstId |-> 0, pre |-> {}, preSessions |-> {},
   alone |-> TRUE, agentRuns |-> 0, agentThrew |-> FALSE, writes |-> 0, httpReturned |-> FALSE,
   limit |-> 0, cursor |-> 0, page |-> <<>>, nextCursor |-> 0,
   seen |-> <<>>, pages |-> 0, snap |-> {}, stream |-> <<>>,
   audience |-> {}, logged |-> FALSE]

WsKinds == {"send", "regenerate", "edit"}

Active(t) == t.kind # "none" /\ t.pc # "done"

\* a task that starts while another one is in flight: neither ran alone
\* (pre, the snapshot taken at the start, is kept for tasks that run alone)
MarkOthers(tk, s) ==
  [x \in Slots |-> IF x # s /\ Active(tk[x])
                   THEN [tk[x] EXCEPT !.alone = FALSE, !.pre = {}, !.preSessions = {}]
                   ELSE tk[x]]

\* a handler that has reached its end returns before anything else runs
NoneDone == \A x \in Slots : task[x].pc # "done"

At(t, pc) == NoneDone /\ t.pc = pc

\* a new invocation takes the lowest free slot
FreeSlot(s) == task[s].kind = "none" /\ \A x \in Slots : x < s => task[x].kind # "none"

OthersActive(s) == \E x \in Slots : x # s /\ Active(task[x])

(***************************************************************************)
(* Patient directory: PatientSyncService                                   *)
(***************************************************************************)
Whitespace == {" ", "\t"}

LowerOf(c) ==
  IF c = "G" THEN "g" ELSE IF c = "J" THEN "j" ELSE IF c = "M" THEN "m"
  ELSE IF c = "L" THEN "l" ELSE c

\* String.prototype.toLowerCase
ToLower(s) == [i \in 1..Len(s) |-> LowerOf(s[i])]

\* replace(/,/g, "")
StripCommas(s) == SelectSeq(s, LAMBDA c : c # ",")

RECURSIVE CollapseWs(_)
\* replace(/\s+/g, " "): every run of whitespace becomes one space
CollapseWs(s) ==
  IF s = <<>> THEN <<>>
  ELSE IF Head(s) \in Whitespace
       THEN IF Len(s) >= 2 /\ s[2] \in Whitespace
            THEN CollapseWs(Tail(s))
            ELSE <<" ">> \o CollapseWs(Tail(s))
       ELSE <<Head(s)>> \o CollapseWs(Tail(s))

RECURSIVE TrimLeft(_)
TrimLeft(s) ==
  IF s # <<>> /\ Head(s) \in Whitespace THEN TrimLeft(Tail(s)) ELSE s

\* String.prototype.trim
Trim(s) == Reverse(TrimLeft(Reverse(TrimLeft(s))))

\* normalizeName: "GARCIA, JOSE" -> "garcia jose"
NormalizeName(name) == Trim(CollapseWs(StripCommas(ToLower(name))))

RECURSIVE FirstToken(_)
\* normalizedInput.split(" ")[0]
FirstToken(s) ==
  IF s = <<>> \/ Head(s) = " " THEN <<>>
  ELSE <<Head(s)>> \o FirstToken(Tail(s))

\* Prisma { startsWith: p }
StartsWith(s, p) == Len(p) <= Len(s) /\ SubSeq(s, 1, Len(p)) = p

\* Prisma { contains: p }
Contains(s, p) ==
  \E k \in 0..(Len(s) - Len(p)) : SubSeq(s, k + 1, k + Len(p)) = p

\* patient names as the EMR census and the doctor write them
NameGJ == <<"G", ",", " ", "J">>
NameJG == <<"J", " ", "G">>
NameGM == <<"g", " ", " ", "m">>
NameJL == <<"j", "l">>
NameEmpty == <<",", " ">>

\* normalizeName over the names in use, computed once
Normalized ==
  [name \in {NameGJ, NameJG, NameGM, NameJL, NameEmpty} |-> NormalizeName(name)]

Hospitals == {"JACKSON", "STEWARD"}
RunIds == {1, 2}

RECURSIVE SeqsUpTo(_, _)
\* the sequences over S of length at most n
SeqsUpTo(S, n) ==
  IF n = 0 THEN {<<>>}
  ELSE LET shorter == SeqsUpTo(S, n - 1)
       IN shorter \cup {Append(q, x) : q \in shorter, x \in S}

PatientRow(d, h, name, active) ==
  [doctorId |-> d, emrSystem |-> h, name |-> name,
   normalizedName |-> Normalized[name], isActive |-> active]

OfPair(pats, d, h) == {p \in pats : p.doctorId = d /\ p.emrSystem = h}

SameKey(p, d, h, n) ==
  p.doctorId = d /\ p.emrSystem = h /\ p.normalizedName = n

\* prisma.patient.upsert on (doctorId, emrSystem, normalizedName)
Upsert(pats, d, h, name) ==
  LET n == Normalized[name] IN
  {p \in pats : ~SameKey(p, d, h, n)} \cup {PatientRow(d, h, name, TRUE)}

\* mutant: the deactivation forgets the emrSystem filter
DeactivateTargets_AnyHospital(pats, d, h, names) ==
  {p \in pats : p.doctorId = d /\ p.isActive
                /\ \A i \in 1..Len(names) : names[i] # p.normalizedName}

\* mutant: the notIn list holds the first census name only
DeactivateTargets_FirstNameOnly(pats, d, h, names) ==
  {p \in pats : p.doctorId = d /\ p.emrSystem = h /\ p.isActive
                /\ (names = <<>> \/ names[1] # p.normalizedName)}

\* the rows matched by the updateMany of step 2
DeactivateTargets(pats, d, h, names) ==
  {p \in pats : p.doctorId = d /\ p.emrSystem = h /\ p.isActive
                /\ \A i \in 1..Len(names) : names[i] # p.normalizedName}

\* prisma.patient.updateMany({isActive: false})
Deactivate(pats, d, h, names) ==
  LET T == DeactivateTargets(pats, d, h, names) IN
  {IF p \in T THEN [p EXCEPT !.isActive = FALSE] ELSE p : p \in pats}

IdleRun ==
  [st |-> "idle", doctorId |-> 0, emrSystem |-> "", census |-> <<>>, i |-> 0,
   names |-> <<>>, upserted |-> 0, deactivated |-> 0, alone |-> TRUE, pre |-> {}]

RunActive(r) == r.st = "upsert"

IngestIds == {1, 2}

IdleIngest ==
  [st |-> "idle", doctorId |-> 0, hospital |-> "", dataType |-> "",
   items |-> <<>>, at |-> 0, i |-> 0, patient |-> <<>>, existing |-> 0,
   processed |-> 0, unmatched |-> 0, early |-> FALSE, err |-> "none"]

\* a handler that has returned hands its result over before anything else runs
NoRunDone ==
  /\ \A r \in RunIds : sync[r].st # "done"
  /\ \A g \in IngestIds : ingest[g].st # "done"

OtherRuns(r) == \E x \in RunIds : x # r /\ RunActive(sync[x])

KeysOf(pats) == {<<p.doctorId, p.emrSystem, p.normalizedName>> : p \in pats}

\* activeNormalizedNames of a whole census, as a set
CensusNorm(census) == {Normalized[census[i]] : i \in 1..Len(census)}

NoRet == [op |-> "none", doctorId |-> 0, hospital |-> "", name |-> <<>>,
          found |-> FALSE, patient |-> <<>>, payload |-> <<>>]

Init ==
  /\ sock = [c \in Conns |-> [st |-> "none", auth |-> "no", token |-> "none", doctorId |-> 0, joined |-> 0,
                            ignored |-> FALSE]]
  /\ connectedDoctors = [d \in Doctors |-> "none"]
  /\ sessions = {}
  /\ messages = {}
  /\ nextId = 1
  /\ task = [s \in Slots |-> IdleTask]
  /\ streamed = 0
  /\ inbox = [c \in Conns |-> [s \in Slots |-> <<>>]]
  /\ patients = {}
  /\ rawData = {}
  /\ nextRid = 1
  /\ sync = [r \in RunIds |-> IdleRun]
  /\ now = 1
  /\ ingest = [g \in IngestIds |-> IdleIngest]
  /\ ret = NoRet
  /\ prev = NoRet

(***************************************************************************)
(* ChatGateway: connections                                                *)
(***************************************************************************)
\* the socket is open and joined to the room doctor_<d>
InRoom(c, d) == sock[c].st = "connected" /\ sock[c].joined = d

\* mutant: server.emit instead of server.to(room).emit
Receives_Broadcast(c, d) == sock[c].st = "connected"

\* server.to(`doctor_${doctorId}`).emit: the sockets an event reaches
Receives(c, d) == InRoom(c, d)

\* what every socket has received of the turn each handler is running: the
\* events a step appends to a turn reach the sockets that are in the room
\* at that moment; the record of a turn is dropped when its handler returns
Delivered ==
  [c \in Conns |-> [s \in Slots |->
     IF task'[s].kind = "none" THEN <<>>
     ELSE LET old == IF task[s].kind = "none" THEN 0 ELSE Len(task[s].events)
              new == SubSeq(task'[s].events, old + 1, Len(task'[s].events))
          IN IF Receives(c, task'[s].doctorId) THEN inbox[c][s] \o new
             ELSE inbox[c][s]]]

\* jwtService.verify + doctor.findFirst({deleted: false}): doctor id or 0
VerifyToken(tok) ==
  IF tok = "tok1" THEN 1 ELSE IF tok = "tok2" THEN 2 ELSE 0

\* mutant: the handlers without their doctorId guard
Authenticated_Always(c) == TRUE

\* (client as any).doctorId is set: the negation of the handlers' guard
\* if (!doctorId) return
Authenticated(c) == sock[c].doctorId # 0

\* handleConnection up to its first await
Connect(c, tok) ==
  /\ NoneDone
  /\ sock[c].st = "none"
  /\ sock' = [sock EXCEPT ![c] =
        IF tok = "none"
        THEN [@ EXCEPT !.st = "closed"]
        ELSE [@ EXCEPT !.st = "connected", !.auth = "pending", !.token = tok]]
  /\ UNCHANGED <<connectedDoctors, sessions, messages, nextId, task, streamed>>
  /\ UNCHANGED dirVars
  /\ inbox' = Delivered

\* handleConnection after verifyToken has resolved
VerifyDone(c) ==
  /\ NoneDone
  /\ sock[c].auth = "pending"
  /\ LET d == VerifyToken(sock[c].token) IN
       IF d = 0
       THEN /\ sock' = [sock EXCEPT ![c] = [@ EXCEPT !.st = "closed", !.auth = "failed"]]
            /\ UNCHANGED connectedDoctors
       ELSE /\ sock' = [sock EXCEPT ![c] = [@ EXCEPT !.auth = "ok", !.doctorId = d, !.joined = d]]
            /\ connectedDoctors' = [connectedDoctors EXCEPT ![d] = c]
  /\ UNCHANGED <<sessions, messages, nextId, task, streamed>>
  /\ UNCHANGED dirVars
  /\ inbox' = Delivered

\* mutant: a disconnect that aborts the turns of the socket's doctor
TasksAfterDisconnect_Cancel(c) ==
  [s \in Slots |-> IF task[s].kind \in WsKinds /\ task[s].doctorId = sock[c].doctorId
                   THEN IdleTask ELSE task[s]]

\* handleDisconnect only deletes the registry entry: the handlers that are
\* running for the doctor are not signalled and go on
TasksAfterDisconnect(c) == task

\* the client closes the socket; handleDisconnect runs
Disconnect(c) ==
  /\ NoneDone
  /\ sock[c].st = "connected"
  /\ sock' = [sock EXCEPT ![c] = [@ EXCEPT !.st = "closed", !.joined = 0]]
  /\ connectedDoctors' =
       IF sock[c].doctorId # 0
       THEN [connectedDoctors EXCEPT ![sock[c].doctorId] = "none"]
       ELSE connectedDoctors
  /\ task' = TasksAfterDisconnect(c)
  /\ UNCHANGED <<sessions, messages, nextId, streamed>>
  /\ UNCHANGED dirVars
  /\ inbox' = Delivered

\* send_message, regenerate_message or edit_last_message arrives on a socket
\* whose doctorId is not set: the handler returns at its guard (the field
\* ignored records that such an event was dropped)
Ignored(c) ==
  /\ NoneDone
  /\ sock[c].st = "connected"
  /\ ~Authenticated(c)
  /\ ~sock[c].ignored
  /\ sock' = [sock EXCEPT ![c] = [@ EXCEPT !.ignored = TRUE]]
  /\ UNCHANGED <<connectedDoctors, sessions, messages, nextId, task, streamed>>
  /\ UNCHANGED dirVars
  /\ inbox' = Delivered

(***************************************************************************)
(* Turns: ChatGateway handlers over ChatService                            *)
(***************************************************************************)
\* Message ids a task may still allocate
Remaining(t) ==
  IF ~Active(t) THEN 0
  ELSE IF t.kind = "get" THEN 0
  ELSE IF t.kind \in {"send", "http"} /\ t.userId = 0 THEN 2 ELSE 1

RECURSIVE SumRemaining(_)
SumRemaining(S) ==
  IF S = {} THEN 0
  ELSE LET s == CHOOSE x \in S : TRUE IN Remaining(task[s]) + SumRemaining(S \ {s})

Need(kind) == IF kind \in {"send", "http"} THEN 2 ELSE 1

\* the ids in use, reserved and asked for fit under the cap
CanStartUpTo(cap, kind) == (nextId - 1) + SumRemaining(Slots) + Need(kind) <= cap

CanStart(kind) == CanStartUpTo(MaxMsgId, kind)

Begin(s, kind, d, content, evs) ==
  task' = [MarkOthers(task, s) EXCEPT ![s] =
     [IdleTask EXCEPT !.kind = kind, !.pc = "findSession", !.doctorId = d,
                      !.content = content, !.events = evs,
                      !.pre = IF OthersActive(s) THEN {} ELSE messages,
                      !.preSessions = IF OthersActive(s) THEN {} ELSE sessions,
                      !.alone = ~OthersActive(s),
                      !.audience = IF kind \in WsKinds
                                   THEN {c \in Conns : InRoom(c, d)}
                                   ELSE {}]]

\* mutant: a handler waits for the doctor's running turn to end
Admits_Serialized(d) ==
  \A x \in Slots : ~(task[x].kind \in WsKinds /\ task[x].doctorId = d)

\* the gateway keeps no lock or queue per doctor: a handler starts whatever
\* else is running for the doctor
Admits(d) == TRUE

\* handleMessage / handleRegenerate / handleEditLastMessage up to the first
\* await: the doctorId guard and ai_thinking{status:true}
StartTurnUpTo(cap, s, c, kind, content) ==
  /\ NoneDone
  /\ FreeSlot(s)
  /\ sock[c].st = "connected"
  /\ Authenticated(c)
  /\ Admits(sock[c].doctorId)
  /\ CanStartUpTo(cap, kind)
  /\ Begin(s, kind, sock[c].doctorId,
           IF kind = "regenerate" THEN <<>> ELSE content,
           <<Ev("ai_thinking", "true", 0)>>)
  /\ UNCHANGED <<sock, connectedDoctors, sessions, messages, nextId, streamed>>
  /\ UNCHANGED dirVars
  /\ inbox' = Delivered

StartTurn(s, c, kind, content) == StartTurnUpTo(MaxMsgId, s, c, kind, content)

\* ChatController.sendMessage -> createMessage(doctorId, content, USER)
StartHttp(s, d, content) ==
  /\ NoneDone
  /\ FreeSlot(s)
  /\ CanStart("http")
  /\ Begin(s, "http", d, content, <<>>)
  /\ UNCHANGED <<sock, connectedDoctors, sessions, messages, nextId, streamed>>
  /\ UNCHANGED dirVars
  /\ inbox' = Delivered

\* IngestController.reportError -> handleRpaError for a node of doctor d
StartRpa(s, d) ==
  /\ NoneDone
  /\ FreeSlot(s)
  /\ CanStart("rpa")
  /\ Begin(s, "rpa", d, <<>>, <<>>)
  /\ UNCHANGED <<sock, connectedDoctors, sessions, messages, nextId, streamed>>
  /\ UNCHANGED dirVars
  /\ inbox' = Delivered

\* a throw reaching the gateway's catch and finally (or the HTTP caller)
Failed(t, err) ==
  [t EXCEPT !.pc = "done", !.err = err,
            !.events = IF t.kind \in WsKinds
                       THEN @ \o <<Ev("error", "", 0), Ev("ai_thinking", "false", 0)>>
                       ELSE @]

\* mutant: regenerate / edit get-or-create the session as send does
AfterFindSession_GetOrCreate(t, found) ==
  IF ~found THEN [t EXCEPT !.pc = "createSession"]
  ELSE IF t.kind \in {"regenerate", "edit"} THEN [t EXCEPT !.pc = "findAssistant"]
  ELSE IF t.kind = "rpa" THEN [t EXCEPT !.pc = "saveRpa"]
  ELSE IF t.kind = "get" THEN [t EXCEPT !.pc = "findMany"]
  ELSE [t EXCEPT !.pc = "saveUser"]

\* what each operation does with the outcome of chatSession.findUnique
AfterFindSession(t, found) ==
  IF t.kind \in {"regenerate", "edit"}
  THEN IF found THEN [t EXCEPT !.pc = "findAssistant"]
       ELSE Failed(t, "NoSession")
  ELSE IF ~found THEN [t EXCEPT !.pc = "createSession"]
       ELSE IF t.kind = "rpa" THEN [t EXCEPT !.pc = "saveRpa"]
       ELSE IF t.kind = "get" THEN [t EXCEPT !.pc = "findMany"]
       ELSE [t EXCEPT !.pc = "saveUser"]

\* chatSession.findUnique({doctorId})
FindSession(s) ==
  LET t == task[s]
      found == t.doctorId \in sessions
  IN /\ At(t, "findSession")
     /\ task' = [task EXCEPT ![s] = AfterFindSession(t, found)]
     /\ UNCHANGED <<sock, connectedDoctors, sessions, messages, nextId, streamed>>
     /\ UNCHANGED dirVars
     /\ inbox' = Delivered

\* chatSession.create({doctorId}); doctorId is unique
CreateSession(s) ==
  LET t == task[s] IN
  /\ At(t, "createSession")
  /\ IF t.doctorId \in sessions
     THEN /\ task' = [task EXCEPT ![s] = Failed(t, "SessionExists")]
          /\ UNCHANGED sessions
     ELSE /\ sessions' = sessions \cup {t.doctorId}
          /\ task' = [task EXCEPT ![s] =
               [t EXCEPT !.pc = IF t.kind = "rpa" THEN "saveRpa"
                                ELSE IF t.kind = "get" THEN "findMany"
                                ELSE "saveUser",
                         !.writes = @ + 1]]
  /\ UNCHANGED <<sock, connectedDoctors, messages, nextId, streamed>>
  /\ UNCHANGED dirVars
  /\ inbox' = Delivered

\* message.create({role: USER}); createMessage returns here
SaveUser(s) ==
  LET t == task[s] IN
  /\ At(t, "saveUser")
  /\ messages' = messages \cup {NewMsg(nextId, t.doctorId, "USER", t.content)}
  /\ nextId' = nextId + 1
  /\ task' = [task EXCEPT ![s] =
       [t EXCEPT !.pc = "loadHistory", !.userId = nextId,
                 !.userMessage = t.content, !.writes = @ + 1,
                 !.httpReturned = (t.kind = "http")]]
  /\ UNCHANGED <<sock, connectedDoctors, sessions, streamed>>
  /\ UNCHANGED dirVars
  /\ inbox' = Delivered

\* message.findFirst({role: ASSISTANT}, createdAt desc)
FindAssistant(s) ==
  LET t == task[s]
      la == LastAssistant(messages, t.doctorId)
  IN /\ At(t, "findAssistant")
     /\ task' = [task EXCEPT ![s] =
          IF la = 0 THEN Failed(t, "NoAssistant")
          ELSE [t EXCEPT !.pc = "findUser", !.la = la]]
     /\ UNCHANGED <<sock, connectedDoctors, sessions, messages, nextId, streamed>>
     /\ UNCHANGED dirVars
     /\ inbox' = Delivered

\* message.findFirst({role: USER, createdAt <= lastAssistantMsg.createdAt})
FindUser(s) ==
  LET t == task[s]
      lu == LastUserAtOrBefore(messages, t.doctorId, t.la)
  IN /\ At(t, "findUser")
     /\ task' = [task EXCEPT ![s] =
          IF lu = 0 THEN Failed(t, "NoUser")
          ELSE [t EXCEPT !.lu = lu,
                  !.pc = IF t.kind = "edit" THEN "updateUser" ELSE "deleteAssistant",
                  !.userMessage = IF t.kind = "edit" THEN t.content
                                  ELSE MsgById(messages, lu).content]]
     /\ UNCHANGED <<sock, connectedDoctors, sessions, messages, nextId, streamed>>
     /\ UNCHANGED dirVars
     /\ inbox' = Delivered

\* mutant: the update is skipped
UpdateContent_Skipped(msgs, i, content) == msgs

\* message.update({id}, {content})
UpdateContent(msgs, i, content) ==
  {IF m.id = i THEN [m EXCEPT !.content = content] ELSE m : m \in msgs}

\* mutant: the old assistant row is kept
DeleteRow_Kept(msgs, i) == msgs

\* message.delete({id})
DeleteRow(msgs, i) == {m \in msgs : m.id # i}

\* editLastMessage: message.update({id: lastUserMsg.id}, {content: newContent})
UpdateUser(s) ==
  LET t == task[s] IN
  /\ At(t, "updateUser")
  /\ \E m \in messages : m.id = t.lu
  /\ messages' = UpdateContent(messages, t.lu, t.content)
  /\ task' = [task EXCEPT ![s] = [t EXCEPT !.pc = "deleteAssistant", !.writes = @ + 1]]
  /\ UNCHANGED <<sock, connectedDoctors, sessions, nextId, streamed>>
  /\ UNCHANGED dirVars
  /\ inbox' = Delivered

\* message.delete({id: lastAssistantMsg.id}); throws when the row is gone
DeleteAssistant(s) ==
  LET t == task[s] IN
  /\ At(t, "deleteAssistant")
  /\ IF \E m \in messages : m.id = t.la
     THEN /\ messages' = DeleteRow(messages, t.la)
          /\ task' = [task EXCEPT ![s] = [t EXCEPT !.pc = "loadHistory", !.writes = @ + 1]]
     ELSE /\ task' = [task EXCEPT ![s] = Failed(t, "DeleteFailed")]
          /\ UNCHANGED messages
  /\ UNCHANGED <<sock, connectedDoctors, sessions, nextId, streamed>>
  /\ UNCHANGED dirVars
  /\ inbox' = Delivered

\* message.findMany(take 10) and the call into AiService.processMessage,
\* which starts the agent run
LoadHistory(s) ==
  LET t == task[s]
      h == ChatHistory(messages, t.doctorId)
  IN /\ At(t, "loadHistory")
     /\ task' = [task EXCEPT ![s] =
          [t EXCEPT !.pc = "stream", !.history = h,
                    !.modelInput = AgentMessages(h, t.userMessage),
                    !.agentRuns = @ + 1]]
     /\ UNCHANGED <<sock, connectedDoctors, sessions, messages, nextId, streamed>>
     /\ UNCHANGED dirVars
     /\ inbox' = Delivered

(***************************************************************************)
(* RouterAgent.processMessage: the stream loop                             *)
(***************************************************************************)
\* items the LangGraph stream can yield: a ToolMessage from the tools node,
\* an AI chunk carrying tool_call_chunks, an AI chunk carrying text
StreamItems ==
  {[cls |-> "ToolMessage", name |-> n, chunks |-> <<>>, calls |-> <<>>,
    node |-> "tools", text |-> <<"r">>] : n \in ToolNames}
  \cup
  {[cls |-> "AIMessageChunk", name |-> "", chunks |-> <<n>>, calls |-> <<>>,
    node |-> "agent", text |-> <<>>] : n \in ToolNames}
  \cup
  {[cls |-> "AIMessageChunk", name |-> "", chunks |-> <<>>, calls |-> <<>>,
    node |-> "agent", text |-> <<ch>>] : ch \in Chunks}

\* names the three detection methods look at, in code order
SignalNames(item) ==
  (IF item.cls = "ToolMessage"
   THEN <<IF item.name = "" THEN "unknown_tool" ELSE item.name>>
   ELSE <<>>) \o item.chunks \o item.calls

RECURSIVE Notify_NoDedupe(_, _, _)
\* mutant: the callback fires without consulting toolsNotified
Notify_NoDedupe(names, notified, out) ==
  IF names = <<>> THEN [notified |-> notified, out |-> out]
  ELSE LET h == Head(names) IN
       IF h = ""
       THEN Notify_NoDedupe(Tail(names), notified, out)
       ELSE Notify_NoDedupe(Tail(names), notified \cup {h}, Append(out, h))

RECURSIVE Notify(_, _, _)
\* toolsNotified.has / add / onToolCall over a list of names
Notify(names, notified, out) ==
  IF names = <<>> THEN [notified |-> notified, out |-> out]
  ELSE LET h == Head(names) IN
       IF h = "" \/ h \in notified
       THEN Notify(Tail(names), notified, out)
       ELSE Notify(Tail(names), notified \cup {h}, Append(out, h))

ToolEvents(names) == [i \in 1..Len(names) |-> Ev("ai_tool_call", names[i], 0)]

\* extractTextContent for the item, when it comes from the agent node
StreamedText(item) == IF item.node = "agent" THEN item.text ELSE <<>>

\* mutant: the text of the item replaces what was accumulated
Accumulate_Overwrite(fullText, txt) == txt

\* fullText += text
Accumulate(fullText, txt) == fullText \o txt

\* one iteration of `for await (const item of stream)`
StreamItem(s, item) ==
  LET t == task[s]
      n == Notify(SignalNames(item), t.toolsNotified, <<>>)
      txt == StreamedText(item)
      cb == t.kind \in WsKinds
  IN /\ At(t, "stream")
     /\ streamed < MaxStream
     /\ streamed' = streamed + 1
     /\ task' = [task EXCEPT ![s] =
          [t EXCEPT !.toolsNotified = n.notified,
                    !.stream = Append(@, item),
                    !.fullText = Accumulate(@, txt),
                    !.events = IF cb
                               THEN @ \o ToolEvents(n.out)
                                      \o (IF txt # <<>>
                                          THEN <<Ev("ai_streaming", txt[1], 0)>>
                                          ELSE <<>>)
                               ELSE @]]
     /\ UNCHANGED <<sock, connectedDoctors, sessions, messages, nextId>>
     /\ UNCHANGED dirVars
     /\ inbox' = Delivered

\* mutant: the accumulated text is returned as it is
AgentResult_NoFallback(fullText) == fullText

\* the stream ends: blank text is replaced by the fallback
AgentResult(fullText) == IF IsBlank(fullText) THEN FallbackText ELSE fullText

StreamEnd(s) ==
  LET t == task[s] IN
  /\ At(t, "stream")
  /\ task' = [task EXCEPT ![s] =
       [t EXCEPT !.pc = "saveAssistant", !.aiText = AgentResult(t.fullText)]]
  /\ UNCHANGED <<sock, connectedDoctors, sessions, messages, nextId, streamed>>
  /\ UNCHANGED dirVars
  /\ inbox' = Delivered

\* mutant: AiService lets the throw through to the gateway
OnAgentThrow_Rethrown(t) == [Failed(t, "ModelError") EXCEPT !.agentThrew = TRUE]

\* what AiService.processMessage does with a throw of the agent run
OnAgentThrow(t) == [t EXCEPT !.pc = "saveAssistant", !.aiText = ApologyText,
                             !.agentThrew = TRUE]

\* the model invocation fails: RouterAgent logs and rethrows
StreamThrow(s) ==
  LET t == task[s] IN
  /\ At(t, "stream")
  /\ task' = [task EXCEPT ![s] = OnAgentThrow(t)]
  /\ UNCHANGED <<sock, connectedDoctors, sessions, messages, nextId, streamed>>
  /\ UNCHANGED dirVars
  /\ inbox' = Delivered

\* mutant: the finally block is missing
OnResolved_NoFinally(t, id) ==
  IF t.kind \in WsKinds
  THEN <<Ev("ai_response_complete", "", id)>>
  ELSE <<>>

\* events the gateway emits once the orchestrator call has resolved
OnResolved(t, id) ==
  IF t.kind \in WsKinds
  THEN <<Ev("ai_response_complete", "", id), Ev("ai_thinking", "false", 0)>>
  ELSE <<>>

\* message.create({role: ASSISTANT, content: aiResponse.text})
SaveAssistant(s) ==
  LET t == task[s] IN
  /\ At(t, "saveAssistant")
  /\ messages' = messages \cup {NewMsg(nextId, t.doctorId, "ASSISTANT", t.aiText)}
  /\ nextId' = nextId + 1
  /\ task' = [task EXCEPT ![s] =
       [t EXCEPT !.pc = "done", !.asstId = nextId, !.writes = @ + 1,
                 !.events = @ \o OnResolved(t, nextId)]]
  /\ UNCHANGED <<sock, connectedDoctors, sessions, streamed>>
  /\ UNCHANGED dirVars
  /\ inbox' = Delivered

\* mutant: processWithAi without its try/catch
OnDetachedFailure_Unhandled(t) == Failed(t, "DbError")

\* the catch of processWithAi: logger.error and nothing else
OnDetachedFailure(t) == [t EXCEPT !.pc = "done", !.logged = TRUE]

\* a persistence call of processWithAi (message.findMany or message.create)
\* rejects
DetachedFail(s) ==
  LET t == task[s] IN
  /\ NoneDone
  /\ t.kind = "http"
  /\ t.pc \in {"loadHistory", "saveAssistant"}
  /\ task' = [task EXCEPT ![s] = OnDetachedFailure(t)]
  /\ UNCHANGED <<sock, connectedDoctors, sessions, messages, nextId, streamed>>
  /\ UNCHANGED dirVars
  /\ inbox' = Delivered

\* handleRpaError: message.create({role: ASSISTANT, type: ERROR})
SaveRpa(s) ==
  LET t == task[s] IN
  /\ At(t, "saveRpa")
  /\ messages' = messages \cup {NewMsg(nextId, t.doctorId, "ASSISTANT", RpaErrorText)}
  /\ nextId' = nextId + 1
  /\ task' = [task EXCEPT ![s] =
       [t EXCEPT !.pc = "done", !.asstId = nextId, !.writes = @ + 1]]
  /\ UNCHANGED <<sock, connectedDoctors, sessions, streamed>>
  /\ UNCHANGED dirVars
  /\ inbox' = Delivered

\* the handler has returned
Finish(s) ==
  /\ task[s].pc = "done"
  /\ task' = [task EXCEPT ![s] = IdleTask]
  /\ UNCHANGED <<sock, connectedDoctors, sessions, messages, nextId, streamed>>
  /\ UNCHANGED dirVars
  /\ inbox' = Delivered

\* the inputs of the chat specification: one connection of doctor 1
ChatConns == {"c1"}
ChatTokens == {"tok1"}
ChatDoctors == {1}
SendContents == {<<"a">>}
ChatItems ==
  {it \in StreamItems : it.name # "find_patient_context" /\ it.chunks = <<>>}

Next ==
  \/ \E c \in ChatConns, tok \in ChatTokens : Connect(c, tok)
  \/ \E c \in ChatConns : VerifyDone(c)
  \/ \E s \in Slots, c \in ChatConns, x \in SendContents : StartTurn(s, c, "send", x)
  \/ \E s \in Slots, c \in ChatConns : StartTurn(s, c, "regenerate", <<>>)
  \/ \E s \in Slots, c \in ChatConns, x \in UserContents : StartTurn(s, c, "edit", x)
  \/ \E s \in Slots, d \in ChatDoctors, x \in SendContents : StartHttp(s, d, x)
  \/ \E s \in Slots, d \in ChatDoctors : StartRpa(s, d)
  \/ \E s \in Slots : FindSession(s)
  \/ \E s \in Slots : CreateSession(s)
  \/ \E s \in Slots : SaveUser(s)
  \/ \E s \in Slots : FindAssistant(s)
  \/ \E s \in Slots : FindUser(s)
  \/ \E s \in Slots : UpdateUser(s)
  \/ \E s \in Slots : DeleteAssistant(s)
  \/ \E s \in Slots : LoadHistory(s)
  \/ \E s \in Slots, item \in ChatItems : StreamItem(s, item)
  \/ \E s \in Slots : StreamEnd(s)
  \/ \E s \in Slots : StreamThrow(s)
  \/ \E s \in Slots : SaveAssistant(s)
  \/ \E s \in Slots : SaveRpa(s)
  \/ \E s \in Slots : Finish(s)

Spec == Init /\ [][Next]_vars
\* IngestService.handlePatientList -> syncPatientList, up to the first await
\* track: whether the directory before the run is recorded for comparison
SyncStart(r, d, h, census, track) ==
  /\ NoRunDone
  /\ sync[r].st = "idle"
  /\ \A x \in RunIds : x < r => sync[x].st # "idle"
  /\ sync' = [x \in RunIds |->
       IF x = r
       THEN [IdleRun EXCEPT !.st = "upsert", !.doctorId = d, !.emrSystem = h,
                            !.census = census, !.i = 1,
                            !.alone = track /\ ~OtherRuns(r),
                            !.pre = IF track /\ ~OtherRuns(r) THEN patients
                                    ELSE {}]
       ELSE IF RunActive(sync[x])
            THEN [sync[x] EXCEPT !.alone = FALSE, !.pre = {}]
            ELSE sync[x]]
  /\ UNCHANGED <<patients, rawData, nextRid, now, ingest, ret, prev>>
  /\ UNCHANGED chatVars

\* step 1: one iteration of the upsert loop
SyncUpsert(r) ==
  LET t == sync[r] IN
  /\ NoRunDone
  /\ t.st = "upsert"
  /\ t.i <= Len(t.census)
  /\ patients' = Upsert(patients, t.doctorId, t.emrSystem, t.census[t.i])
  /\ sync' = [sync EXCEPT ![r] =
       [t EXCEPT !.i = @ + 1, !.upserted = @ + 1,
                 !.names = Append(@, Normalized[t.census[t.i]])]]
  /\ ret' = NoRet
  /\ prev' = NoRet
  /\ UNCHANGED <<rawData, nextRid, now, ingest>>
  /\ UNCHANGED chatVars

\* step 2: the single updateMany, after the loop
SyncDeactivate(r) ==
  LET t == sync[r] IN
  /\ NoRunDone
  /\ t.st = "upsert"
  /\ t.i > Len(t.census)
  /\ patients' = Deactivate(patients, t.doctorId, t.emrSystem, t.names)
  /\ sync' = [sync EXCEPT ![r] =
       [t EXCEPT !.st = "done",
                 !.deactivated = Cardinality(DeactivateTargets(
                     patients, t.doctorId, t.emrSystem, t.names))]]
  /\ ret' = NoRet
  /\ prev' = NoRet
  /\ UNCHANGED <<rawData, nextRid, now, ingest>>
  /\ UNCHANGED chatVars

\* syncPatientList has returned {upserted, deactivated}
SyncFinish(r) ==
  /\ sync[r].st = "done"
  /\ sync' = [sync EXCEPT ![r] = IdleRun]
  /\ UNCHANGED <<patients, rawData, nextRid, now, ingest, ret, prev>>
  /\ UNCHANGED chatVars

\* the census snapshots of the sync specification: every census of
\* doctor 1 at JACKSON, and short ones for another hospital and another doctor
SyncCalls ==
  {<<1, "JACKSON", c>> : c \in SeqsUpTo({NameGJ, NameGM}, MaxCensus)}
    \cup {<<1, "STEWARD", c>> : c \in {<<>>, <<NameGJ>>}}
    \cup {<<2, "JACKSON", c>> : c \in {<<>>, <<NameGJ>>}}

NextSync ==
  \/ \E r \in RunIds, call \in SyncCalls :
       SyncStart(r, call[1], call[2], call[3], TRUE)
  \/ \E r \in RunIds : SyncUpsert(r)
  \/ \E r \in RunIds : SyncDeactivate(r)
  \/ \E r \in RunIds : SyncFinish(r)

SpecSync == Init /\ [][NextSync]_vars

(***************************************************************************)
(* resolvePatient, raw-data ingestion and the patient tools                *)
(***************************************************************************)
ActiveOf(pats, d, h) == {p \in OfPair(pats, d, h) : p.isActive}

\* the Patient row identity: rows are never deleted and the unique key
\* (doctorId, emrSystem, normalizedName) never changes, so it stands for id
PatientId(p) == <<p.doctorId, p.emrSystem, p.normalizedName>>

\* findFirst has no orderBy: any matching row may be the one returned
ExactMatches(pats, d, h, n) ==
  {p \in ActiveOf(pats, d, h) : p.normalizedName = n}

PrefixMatches(pats, d, h, tok) ==
  {p \in ActiveOf(pats, d, h) : StartsWith(p.normalizedName, tok)}

ContainsMatches(pats, d, h, tok) ==
  {p \in ActiveOf(pats, d, h) : Contains(p.normalizedName, tok)}

\* mutant: resolvePatient without the contains tier
ResolveSet_NoContainsTier(pats, d, h, name) ==
  LET n == Normalized[name] IN
  IF ExactMatches(pats, d, h, n) # {}
  THEN ExactMatches(pats, d, h, n)
  ELSE PrefixMatches(pats, d, h, FirstToken(n))

\* mutant: the three strategies without their order
ResolveSet_Unranked(pats, d, h, name) ==
  LET n == Normalized[name] IN
  ExactMatches(pats, d, h, n) \cup PrefixMatches(pats, d, h, FirstToken(n))
    \cup ContainsMatches(pats, d, h, FirstToken(n))

\* the rows resolvePatient can return; {} stands for null
ResolveSet(pats, d, h, name) ==
  LET n == Normalized[name]
      lastName == FirstToken(n)
  IN IF ExactMatches(pats, d, h, n) # {}
     THEN ExactMatches(pats, d, h, n)
     ELSE IF PrefixMatches(pats, d, h, lastName) # {}
          THEN PrefixMatches(pats, d, h, lastName)
          ELSE ContainsMatches(pats, d, h, lastName)

Call(op, d, h, name, found, patient, payload) ==
  [op |-> op, doctorId |-> d, hospital |-> h, name |-> name,
   found |-> found, patient |-> patient, payload |-> payload]

\* PatientSyncService.resolvePatient
ResolvePatient(d, h, name) ==
  /\ NoRunDone
  /\ LET R == ResolveSet(patients, d, h, name) IN
     \/ /\ R = {}
        /\ ret' = Call("resolve", d, h, name, FALSE, <<>>, <<>>)
     \/ \E p \in R :
          ret' = Call("resolve", d, h, name, TRUE, PatientId(p), <<>>)
  /\ prev' = IF ret.op = "resolve" THEN ret ELSE NoRet
  /\ UNCHANGED <<patients, rawData, nextRid, now, sync, ingest>>
  /\ UNCHANGED chatVars

\* formatDateForDisplay: a minute-precision display string of the instant
FormatDateForDisplay(at) == <<"en-US", at \div 2>>

\* include: rawData where dataType, orderBy extractedAt desc, take 1
LatestRaw(rows, pid, dataType) ==
  LET mine == {x \in rows : x.patientId = pid /\ x.dataType = dataType} IN
  {x \in mine : \A y \in mine : y.extractedAt <= x.extractedAt}

NotFoundPayload(h, name) ==
  [error |-> TRUE, message |-> <<"not found", name, h>>]

NoDataPayload(p, h) ==
  [error |-> TRUE, patientName |-> p.name, hospital |-> h,
   message |-> <<"no data yet", p.name, h>>]

\* mutant: the data payload carries the normalized form of the content
DataPayload_Normalized(p, h, x) ==
  [patientName |-> p.name, hospital |-> h,
   extractedAt |-> FormatDateForDisplay(x.extractedAt),
   rawContent |-> NormalizeName(x.rawContent)]

DataPayload(p, h, x) ==
  [patientName |-> p.name, hospital |-> h,
   extractedAt |-> FormatDateForDisplay(x.extractedAt),
   rawContent |-> x.rawContent]

\* the single findFirst of the Summary and Insurance tools
ToolMatches(pats, d, h, name) ==
  ContainsMatches(pats, d, h, FirstToken(Normalized[name]))

\* PatientSummaryTool.execute / PatientInsuranceTool.execute
DataTool(op, dataType, d, h, name) ==
  /\ NoRunDone
  /\ LET M == ToolMatches(patients, d, h, name) IN
     \/ /\ M = {}
        /\ ret' = Call(op, d, h, name, FALSE, <<>>, NotFoundPayload(h, name))
     \/ \E p \in M :
          LET L == LatestRaw(rawData, PatientId(p), dataType) IN
          \/ /\ L = {}
             /\ ret' = Call(op, d, h, name, TRUE, PatientId(p),
                            NoDataPayload(p, h))
          \/ \E x \in L :
               ret' = Call(op, d, h, name, TRUE, PatientId(p),
                           DataPayload(p, h, x))
  /\ prev' = NoRet
  /\ UNCHANGED <<patients, rawData, nextRid, now, sync, ingest>>
  /\ UNCHANGED chatVars

SummaryTool(d, h, name) == DataTool("summary", "SUMMARY", d, h, name)

InsuranceTool(d, h, name) == DataTool("insurance", "INSURANCE", d, h, name)

\* code-point order of the characters used in names
CharRank(c) ==
  IF c = "\t" THEN 0 ELSE IF c = " " THEN 1 ELSE IF c = "," THEN 2
  ELSE IF c = "G" THEN 3 ELSE IF c = "J" THEN 4 ELSE IF c = "L" THEN 5
  ELSE IF c = "M" THEN 6 ELSE IF c = "g" THEN 7 ELSE IF c = "j" THEN 8
  ELSE IF c = "l" THEN 9 ELSE 10

RECURSIVE NameLeq(_, _)
NameLeq(a, b) ==
  IF a = <<>> THEN TRUE
  ELSE IF b = <<>> THEN FALSE
  ELSE IF Head(a) = Head(b) THEN NameLeq(Tail(a), Tail(b))
  ELSE CharRank(Head(a)) < CharRank(Head(b))

\* orderBy: { name: "asc" }
SortByName(S) ==
  CHOOSE q \in [1..Cardinality(S) -> S] :
    /\ \A i, j \in 1..Cardinality(S) : i < j => q[i] # q[j] /\ NameLeq(q[i], q[j])

ListPayload(pats, d, h) ==
  LET names == {p.name : p \in ActiveOf(pats, d, h)} IN
  IF names = {}
  THEN [hospital |-> h, count |-> 0, patients |-> <<>>,
        message |-> <<"no active patients", h>>]
  ELSE [hospital |-> h, count |-> Cardinality(names),
        lastUpdated |-> "formatted", patients |-> SortByName(names)]

\* PatientListTool.execute
ListTool(d, h) ==
  /\ NoRunDone
  /\ ret' = Call("list", d, h, <<>>, ActiveOf(patients, d, h) # {}, <<>>,
                 ListPayload(patients, d, h))
  /\ prev' = NoRet
  /\ UNCHANGED <<patients, rawData, nextRid, now, sync, ingest>>
  /\ UNCHANGED chatVars

(***************************************************************************)
(* IngestService.handleRawData                                             *)
(***************************************************************************)
Entry(name, found, content) ==
  [patient |-> name, found |-> found, content |-> content]

Item(e) == [patientName |-> e.patient, rawText |-> e.content]

\* 1. normalize the payload into the items to process; "" is falsy
ItemsToProcess(shape, entries) ==
  IF shape = "batch"
  THEN LET kept == SelectSeq(entries, LAMBDA e : e.found /\ e.content # <<>>)
       IN [k \in 1..Len(kept) |-> Item(kept[k])]
  ELSE IF entries[1].patient # <<>> /\ entries[1].content # <<>>
       THEN <<Item(entries[1])>>
       ELSE <<>>

\* the single shape without a name or without text returns at once
ReturnsEarly(shape, entries) ==
  shape = "single" /\ (entries[1].patient = <<>> \/ entries[1].content = <<>>)

IngestStart(g, d, h, dataType, shape, entries) ==
  /\ NoRunDone
  /\ ingest[g].st = "idle"
  /\ \A x \in IngestIds : x < g => ingest[x].st # "idle"
  /\ now <= MaxIngest
  /\ now' = now + 1
  /\ ingest' = [ingest EXCEPT ![g] =
       [IdleIngest EXCEPT
          !.st = IF ItemsToProcess(shape, entries) = <<>> THEN "done"
                 ELSE "resolve",
          !.doctorId = d, !.hospital = h, !.dataType = dataType,
          !.items = ItemsToProcess(shape, entries), !.at = now, !.i = 1,
          !.early = ReturnsEarly(shape, entries)]]
  /\ UNCHANGED <<patients, rawData, nextRid, sync, ret, prev>>
  /\ UNCHANGED chatVars

\* 2. await this.patientSync.resolvePatient(...)
IngestResolve(g) ==
  LET t == ingest[g]
      R == ResolveSet(patients, t.doctorId, t.hospital, t.items[t.i].patientName)
      next == IF t.i = Len(t.items) THEN "done" ELSE "resolve"
  IN
  /\ NoRunDone
  /\ t.st = "resolve"
  /\ \/ /\ R = {}
        /\ ingest' = [ingest EXCEPT ![g] =
             [t EXCEPT !.unmatched = @ + 1, !.i = @ + 1, !.st = next]]
     \/ \E p \in R :
          ingest' = [ingest EXCEPT ![g] =
             [t EXCEPT !.patient = PatientId(p), !.st = "find"]]
  /\ UNCHANGED <<patients, rawData, nextRid, now, sync, ret, prev>>
  /\ UNCHANGED chatVars

\* await this.prisma.patientRawData.findFirst(...)
IngestFind(g) ==
  LET t == ingest[g]
      E == {x \in rawData : x.patientId = t.patient /\ x.dataType = t.dataType}
  IN
  /\ NoRunDone
  /\ t.st = "find"
  /\ \/ /\ E = {}
        /\ ingest' = [ingest EXCEPT ![g] = [t EXCEPT !.existing = 0, !.st = "write"]]
     \/ \E x \in E :
          ingest' = [ingest EXCEPT ![g] = [t EXCEPT !.existing = x.id, !.st = "write"]]
  /\ UNCHANGED <<patients, rawData, nextRid, now, sync, ret, prev>>
  /\ UNCHANGED chatVars

Later(a, b) == IF a >= b THEN a ELSE b

\* the rows of the pair (patientId, dataType); latest is the stamp of the
\* latest ingestion that reached its write for the pair
Noted(rows, pid, dataType, at) ==
  {IF x.patientId = pid /\ x.dataType = dataType
   THEN [x EXCEPT !.latest = Later(@, at)] ELSE x : x \in rows}

\* whether the table has a unique index on (patientId, dataType) is not
\* decided by the service code: a create for a pair that has a row either
\* adds a second row or is rejected
UniqueIndexOutcomes == {"none", "unique"}

\* patientRawData.update({where: {id}}) or patientRawData.create
IngestWrite(g) ==
  LET t == ingest[g]
      item == t.items[t.i]
      clash == \E x \in rawData : x.patientId = t.patient /\ x.dataType = t.dataType
      stored == [t EXCEPT !.processed = @ + 1, !.i = @ + 1, !.patient = <<>>,
                          !.existing = 0,
                          !.st = IF t.i = Len(t.items) THEN "done" ELSE "resolve"]
  IN
  /\ NoRunDone
  /\ t.st = "write"
  /\ IF t.existing # 0
     THEN /\ rawData' =
               {IF x.id = t.existing
                THEN [x EXCEPT !.rawContent = item.rawText, !.extractedAt = t.at]
                ELSE x : x \in Noted(rawData, t.patient, t.dataType, t.at)}
          /\ nextRid' = nextRid
          /\ ingest' = [ingest EXCEPT ![g] = stored]
     ELSE \E index \in UniqueIndexOutcomes :
          IF clash /\ index = "unique"
          THEN /\ rawData' = Noted(rawData, t.patient, t.dataType, t.at)
               /\ nextRid' = nextRid
               /\ ingest' = [ingest EXCEPT ![g] =
                    [t EXCEPT !.st = "done", !.err = "P2002"]]
          ELSE /\ rawData' = Noted(rawData, t.patient, t.dataType, t.at) \cup
                    {[id |-> nextRid, patientId |-> t.patient,
                      dataType |-> t.dataType, rawContent |-> item.rawText,
                      extractedAt |-> t.at, latest |-> t.at]}
               /\ nextRid' = nextRid + 1
               /\ ingest' = [ingest EXCEPT ![g] = stored]
  /\ ret' = NoRet
  /\ prev' = NoRet
  /\ UNCHANGED <<patients, now, sync>>
  /\ UNCHANGED chatVars

\* handleRawData has returned its counts
IngestFinish(g) ==
  /\ ingest[g].st = "done"
  /\ ingest' = [ingest EXCEPT ![g] = IdleIngest]
  /\ UNCHANGED <<patients, rawData, nextRid, now, sync, ret, prev>>
  /\ UNCHANGED chatVars

\* the names the doctor asks about
QueryNames == {NameGJ, NameJG, NameGM}

\* the census snapshots of the resolution specification
ResolveCalls ==
  {<<1, "JACKSON", c>> : c \in SeqsUpTo({NameGJ, NameGM, NameJL}, MaxCensus)}
    \cup {<<1, "STEWARD", <<NameGM>>>>}

NextResolve ==
  \/ \E call \in ResolveCalls : SyncStart(1, call[1], call[2], call[3], FALSE)
  \/ SyncUpsert(1)
  \/ SyncDeactivate(1)
  \/ SyncFinish(1)
  \/ \E h \in Hospitals, name \in QueryNames : ResolvePatient(1, h, name)

SpecResolve == Init /\ [][NextResolve]_vars

RawTexts == {<<"S", ",">>}

\* the census snapshots of the tool specification
ToolCalls ==
  {<<1, "JACKSON", c>> : c \in {<<>>, <<NameGJ>>, <<NameGM>>, <<NameGJ, NameGM>>}}
    \cup {<<1, "STEWARD", <<NameGM>>>>}

NextTools ==
  \/ \E call \in ToolCalls : SyncStart(1, call[1], call[2], call[3], FALSE)
  \/ SyncUpsert(1)
  \/ SyncDeactivate(1)
  \/ SyncFinish(1)
  \/ \E dataType \in {"SUMMARY", "INSURANCE"}, text \in RawTexts :
       IngestStart(1, 1, "JACKSON", dataType, "single",
                   <<Entry(NameGJ, TRUE, text)>>)
  \/ IngestResolve(1)
  \/ IngestFind(1)
  \/ IngestWrite(1)
  \/ IngestFinish(1)
  \/ \E name \in {NameGJ, NameGM} : SummaryTool(1, "JACKSON", name)
  \/ \E name \in {NameGJ, NameGM} : InsuranceTool(1, "JACKSON", name)
  \/ \E h \in Hospitals : ListTool(1, h)

SpecTools == Init /\ [][NextTools]_vars

(***************************************************************************)
(* Batch tools: Promise.all over the single-entity tool                    *)
(***************************************************************************)
\* the payloads PatientSummaryTool / PatientInsuranceTool can return
DataToolPayloads(pats, rows, dataType, d, h, name) ==
  LET M == ToolMatches(pats, d, h, name) IN
  IF M = {} THEN {NotFoundPayload(h, name)}
  ELSE UNION {LET L == LatestRaw(rows, PatientId(p), dataType) IN
              IF L = {} THEN {NoDataPayload(p, h)}
              ELSE {DataPayload(p, h, x) : x \in L} : p \in M}

RECURSIVE SlotChoices(_)
\* the result arrays of Promise.all: one value per slot, in input order
SlotChoices(slots) ==
  IF slots = <<>> THEN {<<>>}
  ELSE {<<x>> \o rest : x \in Head(slots), rest \in SlotChoices(Tail(slots))}

\* a query of the single-entity tool that rejects (the database is
\* unreachable): the tools have no try/catch, the rejection leaves execute
Rejected == [rejected |-> TRUE]

\* `[${results.join(",")}]` of the awaited Promise.all; Promise.all rejects
\* as soon as one of the calls rejects
BatchResult(results, faults) ==
  IF faults = {} THEN results ELSE Rejected

\* BatchPatientSummaryTool.execute / BatchPatientInsuranceTool.execute
\* faults: the slots whose query rejects
BatchDataTool(op, dataType, d, h, names, faults) ==
  /\ NoRunDone
  /\ faults \subseteq 1..Len(names)
  /\ \E results \in SlotChoices(
         [i \in 1..Len(names) |->
            DataToolPayloads(patients, rawData, dataType, d, h, names[i])]) :
       ret' = Call(op, d, h, names, faults = {}, <<>>,
                   BatchResult(results, faults))
  /\ prev' = NoRet
  /\ UNCHANGED <<patients, rawData, nextRid, now, sync, ingest>>
  /\ UNCHANGED chatVars

BatchSummaryTool(d, h, names, faults) ==
  BatchDataTool("batch_summary", "SUMMARY", d, h, names, faults)

BatchInsuranceTool(d, h, names, faults) ==
  BatchDataTool("batch_insurance", "INSURANCE", d, h, names, faults)

\* BatchPatientListTool.execute
BatchListTool(d, hs, faults) ==
  /\ NoRunDone
  /\ faults \subseteq 1..Len(hs)
  /\ ret' = Call("batch_list", d, "", hs, faults = {}, <<>>,
                 BatchResult([i \in 1..Len(hs) |-> ListPayload(patients, d, hs[i])],
                             faults))
  /\ prev' = NoRet
  /\ UNCHANGED <<patients, rawData, nextRid, now, sync, ingest>>
  /\ UNCHANGED chatVars

\* the target lists of the batch specification
BatchNames == {<<NameGJ>>, <<NameGJ, NameJL>>, <<NameJL, NameGJ>>}
BatchHospitals == {<<"STEWARD">>, <<"JACKSON", "STEWARD">>, <<"STEWARD", "JACKSON">>}

\* no query rejects, or the query of one slot does
FaultSets == {{}, {2}}

\* the census snapshots of the batch specification
BatchCalls ==
  {<<1, "JACKSON", c>> : c \in {<<>>, <<NameGJ>>, <<NameGJ, NameGM>>}}

NextBatch ==
  \/ \E call \in BatchCalls : SyncStart(1, call[1], call[2], call[3], FALSE)
  \/ SyncUpsert(1)
  \/ SyncDeactivate(1)
  \/ SyncFinish(1)
  \/ \E text \in RawTexts :
       IngestStart(1, 1, "JACKSON", "SUMMARY", "single",
                   <<Entry(NameGJ, TRUE, text)>>)
  \/ IngestResolve(1)
  \/ IngestFind(1)
  \/ IngestWrite(1)
  \/ IngestFinish(1)
  \/ \E names \in BatchNames, faults \in FaultSets :
       BatchSummaryTool(1, "JACKSON", names, faults)
  \/ \E names \in BatchNames, faults \in FaultSets :
       BatchInsuranceTool(1, "JACKSON", names, faults)
  \/ \E hs \in BatchHospitals, faults \in FaultSets :
       BatchListTool(1, hs, faults)

SpecBatch == Init /\ [][NextBatch]_vars

(***************************************************************************)
(* ChatService.getSession: cursor-paginated history                        *)
(***************************************************************************)
\* the limit query parameter; 0 stands for the absent parameter
Limits == {0, 1, 2}

\* ChatController.getSession -> ChatService.getSession, up to the first await
\* (limit ? Number(limit) : undefined, then the default of the parameter)
StartGet(s, d, limitParam) ==
  /\ NoneDone
  /\ FreeSlot(s)
  /\ task' = [MarkOthers(task, s) EXCEPT ![s] =
       [IdleTask EXCEPT !.kind = "get", !.pc = "findSession", !.doctorId = d,
                        !.limit = IF limitParam = 0 THEN DefaultLimit ELSE limitParam,
                        !.cursor = 0, !.snap = messages,
                        !.preSessions = IF OthersActive(s) THEN {} ELSE sessions,
                        !.alone = ~OthersActive(s)]]
  /\ UNCHANGED <<sock, connectedDoctors, sessions, messages, nextId, streamed>>
  /\ UNCHANGED dirVars
  /\ inbox' = Delivered

\* the rows of the session, orderBy id desc
NewestFirst(msgs, d) == Reverse(SortById(SessionMsgs(msgs, d)))

\* mutant: the cursor row is not skipped
AfterCursor_NoSkip(rows, msgs, cursor) ==
  IF cursor = 0 THEN rows
  ELSE SelectSeq(rows, LAMBDA m : m.id <= cursor)

\* cursor: {id}, skip: 1 -- the rows from the cursor row on, without it;
\* a cursor row that no longer exists gives no rows
AfterCursor(rows, msgs, cursor) ==
  IF cursor = 0 THEN rows
  ELSE IF \A m \in msgs : m.id # cursor THEN <<>>
  ELSE LET from == SelectSeq(rows, LAMBDA m : m.id <= cursor)
       IN IF from = <<>> THEN <<>> ELSE Tail(from)

\* message.findMany({take, skip, cursor, where, orderBy: {id: "desc"}})
FindManyPage(msgs, d, limit, cursor) ==
  Take(AfterCursor(NewestFirst(msgs, d), msgs, cursor), limit)

\* mutant: nextCursor read before the in-place reverse (the newest id)
NextCursorOf_BeforeReverse(found, limit) ==
  IF Len(found) = limit THEN found[1].id ELSE 0

\* messages.reverse() reverses the array in place and is evaluated first, so
\* messages[0] in the nextCursor expression is the oldest row of the page;
\* 0 stands for undefined
NextCursorOf(found, limit) ==
  IF Len(found) = limit THEN Reverse(found)[1].id ELSE 0

\* the findMany of getSession and its return value
FindMany(s) ==
  LET t == task[s]
      found == FindManyPage(messages, t.doctorId, t.limit, t.cursor)
      ids == [i \in 1..Len(found) |-> Reverse(found)[i].id]
  IN /\ At(t, "findMany")
     /\ task' = [task EXCEPT ![s] =
          [t EXCEPT !.pc = "done", !.page = ids,
                    !.nextCursor = NextCursorOf(found, t.limit),
                    !.seen = ids \o @, !.pages = @ + 1]]
     /\ UNCHANGED <<sock, connectedDoctors, sessions, messages, nextId, streamed>>
     /\ UNCHANGED dirVars
     /\ inbox' = Delivered

\* the client asks for the next older page with the nextCursor it received
\* (same doctor, same limit); seen keeps the pages received so far
FollowCursor(s) ==
  LET t == task[s] IN
  /\ t.kind = "get" /\ t.pc = "done"
  /\ t.nextCursor # 0
  /\ task' = [task EXCEPT ![s] =
       [t EXCEPT !.pc = "findSession", !.cursor = t.nextCursor,
                 !.page = <<>>, !.nextCursor = 0]]
  /\ UNCHANGED <<sock, connectedDoctors, sessions, messages, nextId, streamed>>
  /\ UNCHANGED dirVars
  /\ inbox' = Delivered

NextPage ==
  \/ \E s \in Slots, d \in Doctors : StartRpa(s, d)
  \/ \E s \in Slots : FindSession(s)
  \/ \E s \in Slots : CreateSession(s)
  \/ \E s \in Slots : SaveRpa(s)
  \/ \E s \in Slots, limit \in Limits : StartGet(s, 1, limit)
  \/ \E s \in Slots : FindMany(s)
  \/ \E s \in Slots : FollowCursor(s)
  \/ \E s \in Slots : Finish(s)

SpecPage == Init /\ [][NextPage]_vars

(***************************************************************************)
(* One agent run over richer streams                                       *)
(***************************************************************************)
\* further shapes of stream items: a ToolMessage without a name, an AI
\* message with tool_calls, an AI chunk whose tool_call_chunks and tool_calls
\* name tools in different orders, a chunk continuing a call (no name)
AgentItems ==
  StreamItems
  \cup {[cls |-> "ToolMessage", name |-> "", chunks |-> <<>>, calls |-> <<>>,
         node |-> "tools", text |-> <<"r">>]}
  \cup {[cls |-> "AIMessage", name |-> "", chunks |-> <<>>, calls |-> <<n>>,
         node |-> "agent", text |-> <<>>] : n \in ToolNames}
  \cup {[cls |-> "AIMessageChunk", name |-> "",
         chunks |-> <<"", "query_patient_list">>,
         calls |-> <<"find_patient_context", "query_patient_list">>,
         node |-> "agent", text |-> <<>>]}

NextAgent ==
  \/ \E c \in ChatConns, tok \in ChatTokens : Connect(c, tok)
  \/ \E c \in ChatConns : VerifyDone(c)
  \/ \E c \in ChatConns, x \in SendContents : StartTurn(1, c, "send", x)
  \/ FindSession(1)
  \/ CreateSession(1)
  \/ SaveUser(1)
  \/ LoadHistory(1)
  \/ \E item \in AgentItems : StreamItem(1, item)
  \/ StreamEnd(1)
  \/ StreamThrow(1)
  \/ SaveAssistant(1)
  \/ Finish(1)

SpecAgent == Init /\ [][NextAgent]_vars

(***************************************************************************)
(* Handshakes with every kind of credential, and the handlers' guard       *)
(***************************************************************************)
NextAuth ==
  \/ \E c \in Conns, tok \in Tokens : Connect(c, tok)
  \/ \E c \in Conns : VerifyDone(c)
  \/ \E c \in Conns : Disconnect(c)
  \/ \E c \in Conns : Ignored(c)
  \/ \E c \in Conns : StartTurn(1, c, "regenerate", <<>>)
  \/ FindSession(1)
  \/ Finish(1)

SpecAuth == Init /\ [][NextAuth]_vars

(***************************************************************************)
(* Two sockets, of one doctor or of two, around one send turn              *)
(***************************************************************************)
ConnItems == {it \in ChatItems : it.text \in {<<"x">>, <<"r">>}}

TurnStep(s) ==
  \/ FindSession(s)
  \/ CreateSession(s)
  \/ SaveUser(s)
  \/ LoadHistory(s)
  \/ \E item \in ConnItems : StreamItem(s, item)
  \/ StreamEnd(s)
  \/ StreamThrow(s)
  \/ SaveAssistant(s)
  \/ Finish(s)

NextConn ==
  \/ Connect("c1", "tok1")
  \/ \E tok \in {"tok1", "tok2"} : Connect("c2", tok)
  \/ \E c \in Conns : VerifyDone(c)
  \/ \E c \in Conns : Disconnect(c)
  \/ \E c \in Conns : StartTurn(1, c, "send", <<"a">>)
  \/ TurnStep(1)

SpecConn == Init /\ [][NextConn]_vars

\* one socket that may close at any moment of its send turn
NextOrphan ==
  \/ Connect("c1", "tok1")
  \/ VerifyDone("c1")
  \/ Disconnect("c1")
  \/ StartTurn(1, "c1", "send", <<"a">>)
  \/ TurnStep(1)

\* every handler that has started keeps being scheduled by the event loop
SpecOrphan == Init /\ [][NextOrphan]_vars /\ WF_vars(TurnStep(1))

(***************************************************************************)
(* Two ingestions of one doctor and hospital, overlapping or not            *)
(***************************************************************************)
IngestEntries ==
  {<<"single", <<Entry(NameGJ, TRUE, <<"S">>)>>>>,
   <<"single", <<Entry(NameGJ, TRUE, <<"T">>)>>>>,
   <<"batch", <<Entry(NameGJ, TRUE, <<"S">>), Entry(NameJL, TRUE, <<"S">>)>>>>,
   <<"batch", <<Entry(NameJL, TRUE, <<"T">>), Entry(NameGJ, TRUE, <<"T">>)>>>>}

NextIngest ==
  \/ SyncStart(1, 1, "JACKSON", <<NameGJ, NameJL>>, FALSE)
  \/ SyncUpsert(1)
  \/ SyncDeactivate(1)
  \/ SyncFinish(1)
  \/ \E g \in IngestIds, e \in IngestEntries :
       IngestStart(g, 1, "JACKSON", "SUMMARY", e[1], e[2])
  \/ \E g \in IngestIds : IngestResolve(g)
  \/ \E g \in IngestIds : IngestFind(g)
  \/ \E g \in IngestIds : IngestWrite(g)
  \/ \E g \in IngestIds : IngestFinish(g)

SpecIngest == Init /\ [][NextIngest]_vars

(***************************************************************************)
(* The four interactions that find or create the doctor's session          *)
(***************************************************************************)
NextSession ==
  \/ \E c \in ChatConns, tok \in ChatTokens : Connect(c, tok)
  \/ \E c \in ChatConns : VerifyDone(c)
  \/ \E s \in Slots, c \in ChatConns : StartTurn(s, c, "send", <<"a">>)
  \/ \E s \in Slots : StartHttp(s, 1, <<"a">>)
  \/ \E s \in Slots, d \in Doctors : StartRpa(s, d)
  \/ \E s \in Slots : StartGet(s, 1, 0)
  \/ \E s \in Slots : FindSession(s)
  \/ \E s \in Slots : CreateSession(s)
  \/ \E s \in Slots : SaveUser(s)
  \/ \E s \in Slots : LoadHistory(s)
  \/ \E s \in Slots : StreamEnd(s)
  \/ \E s \in Slots : SaveAssistant(s)
  \/ \E s \in Slots : SaveRpa(s)
  \/ \E s \in Slots : FindMany(s)
  \/ \E s \in Slots : Finish(s)

SpecSession == Init /\ [][NextSession]_vars

(***************************************************************************)
(* POST /chat: createMessage and its detached processWithAi                *)
(***************************************************************************)
NextHttp ==
  \/ Connect("c1", "tok1")
  \/ VerifyDone("c1")
  \/ \E s \in Slots, x \in UserContents : StartHttp(s, 1, x)
  \/ \E s \in Slots : FindSession(s)
  \/ \E s \in Slots : CreateSession(s)
  \/ \E s \in Slots : SaveUser(s)
  \/ \E s \in Slots : LoadHistory(s)
  \/ \E s \in Slots, item \in ConnItems : StreamItem(s, item)
  \/ \E s \in Slots : StreamEnd(s)
  \/ \E s \in Slots : StreamThrow(s)
  \/ \E s \in Slots : SaveAssistant(s)
  \/ \E s \in Slots : DetachedFail(s)
  \/ \E s \in Slots : Finish(s)

SpecHttp == Init /\ [][NextHttp]_vars

(***************************************************************************)
(* Two send_message events of one doctor, the second before the first ends *)
(***************************************************************************)
RaceItems == {it \in ChatItems : it.text = <<"x">>}

NextRace ==
  \/ Connect("c1", "tok1")
  \/ VerifyDone("c1")
  \/ \E s \in Slots, x \in UserContents :
       StartTurnUpTo(MaxRaceId, s, "c1", "send", x)
  \/ \E s \in Slots : FindSession(s)
  \/ \E s \in Slots : CreateSession(s)
  \/ \E s \in Slots : SaveUser(s)
  \/ \E s \in Slots : LoadHistory(s)
  \/ \E s \in Slots, item \in RaceItems : StreamItem(s, item)
  \/ \E s \in Slots : StreamEnd(s)
  \/ \E s \in Slots : SaveAssistant(s)
  \/ \E s \in Slots : Finish(s)

SpecRace == Init /\ [][NextRace]_vars

(***************************************************************************)
(* Two regenerate_message events of one doctor, after send turns that ran  *)
(* one at a time                                                           *)
(***************************************************************************)
NoTurn == \A x \in Slots : task[x].kind = "none"

NextRegen ==
  \/ Connect("c1", "tok1")
  \/ VerifyDone("c1")
  \/ \E s \in Slots : NoTurn /\ StartTurnUpTo(MaxRegenId, s, "c1", "send", <<"a">>)
  \/ \E s \in Slots : StartTurnUpTo(MaxRegenId, s, "c1", "regenerate", <<>>)
  \/ \E s \in Slots : FindSession(s)
  \/ \E s \in Slots : CreateSession(s)
  \/ \E s \in Slots : SaveUser(s)
  \/ \E s \in Slots : FindAssistant(s)
  \/ \E s \in Slots : FindUser(s)
  \/ \E s \in Slots : DeleteAssistant(s)
  \/ \E s \in Slots : LoadHistory(s)
  \/ \E s \in Slots : StreamEnd(s)
  \/ \E s \in Slots : SaveAssistant(s)
  \/ \E s \in Slots : Finish(s)

SpecRegen == Init /\ [][NextRegen]_vars

(***************************************************************************)
(* FindPatientContextTool.locatePatients                                   *)
(***************************************************************************)
\* findMany({doctorId, isActive: true, normalizedName: {contains: lastName}})
\* for one name: the hospital is not part of the filter
LocateMatches(pats, d, name) ==
  {p \in pats : /\ p.doctorId = d
                /\ p.isActive
                /\ Contains(p.normalizedName, FirstToken(Normalized[name]))}

\* result: the display names found, grouped by emrSystem and deduplicated
\* (findMany has no orderBy: the order inside a group is not determined, and
\* a group stands for its set of names)
LocateGroups(pats, d, names) ==
  {<<p.emrSystem, p.name>> :
     p \in UNION {LocateMatches(pats, d, names[i]) : i \in 1..Len(names)}}

NoMatchesPayload(names) ==
  [error |-> <<"No matching patients found">>, searchedNames |-> names]

LocatePayload(pats, d, names) ==
  IF LocateGroups(pats, d, names) = {}
  THEN NoMatchesPayload(names)
  ELSE [groups |-> LocateGroups(pats, d, names)]

\* FindPatientContextTool.execute in lookup mode
LocatePatients(d, names) ==
  /\ NoRunDone
  /\ ret' = Call("locate", d, "", names, LocateGroups(patients, d, names) # {},
                 <<>>, LocatePayload(patients, d, names))
  /\ prev' = NoRet
  /\ UNCHANGED <<patients, rawData, nextRid, now, sync, ingest>>
  /\ UNCHANGED chatVars

(***************************************************************************)
(* Names that normalize to the empty string, through every lookup          *)
(***************************************************************************)
EmptyCalls ==
  {<<1, "JACKSON", c>> : c \in {<<>>, <<NameGJ>>, <<NameGJ, NameGM>>}}
    \cup {<<1, "STEWARD", <<NameGM>>>>}

LocateNames == {<<NameEmpty>>, <<NameGJ>>, <<NameGJ, NameEmpty>>}

NextEmpty ==
  \/ \E call \in EmptyCalls : SyncStart(1, call[1], call[2], call[3], FALSE)
  \/ SyncUpsert(1)
  \/ SyncDeactivate(1)
  \/ SyncFinish(1)
  \/ \E name \in {NameEmpty, NameGJ} : ResolvePatient(1, "JACKSON", name)
  \/ SummaryTool(1, "JACKSON", NameEmpty)
  \/ InsuranceTool(1, "JACKSON", NameEmpty)
  \/ \E names \in LocateNames : LocatePatients(1, names)
  \/ IngestStart(1, 1, "JACKSON", "SUMMARY", "single",
                 <<Entry(NameEmpty, TRUE, <<"S">>)>>)
  \/ IngestResolve(1)
  \/ IngestFind(1)
  \/ IngestWrite(1)
  \/ IngestFinish(1)

SpecEmpty == Init /\ [][NextEmpty]_vars

(***************************************************************************)
(* Properties                                                              *)
(***************************************************************************)
EvTypes(evs) == [i \in 1..Len(evs) |-> evs[i].type]

Terminal(e) == e.type \in {"ai_response_complete", "error"}

Progress(e) == e.type \in {"ai_tool_call", "ai_streaming"}

TerminalAt(evs) == {i \in 1..Len(evs) : Terminal(evs[i])}

\* the order of one turn's events, for a turn in flight or finished
TurnOrder(evs, finished) ==
  /\ Len(evs) >= 1
  /\ evs[1] = Ev("ai_thinking", "true", 0)
  /\ Cardinality(TerminalAt(evs)) <= 1
  /\ finished => TerminalAt(evs) # {}
  /\ IF TerminalAt(evs) = {}
     THEN \A i \in 2..Len(evs) : Progress(evs[i])
     ELSE LET k == CHOOSE i \in TerminalAt(evs) : TRUE IN
          /\ \A i \in 2..(k - 1) : Progress(evs[i])
          /\ finished
          /\ Len(evs) = k + 1
          /\ evs[k + 1] = Ev("ai_thinking", "false", 0)

WsDone(t) == t.kind \in WsKinds /\ t.pc = "done"

\* C1: the events of every send, regenerate or edit turn are, in order,
\* ai_thinking(true), then only ai_tool_call and ai_streaming events, then
\* exactly one of ai_response_complete or error, then ai_thinking(false),
\* whether the turn succeeded or failed.
C1_TurnEventOrder ==
  \A s \in Slots :
    task[s].kind \in WsKinds => TurnOrder(task[s].events, task[s].pc = "done")

\* a finished turn that called one tool and streamed text
C1_Witness ==
  \E s \in Slots :
    /\ WsDone(task[s])
    /\ EvTypes(task[s].events) =
         <<"ai_thinking", "ai_tool_call", "ai_streaming", "ai_response_complete",
           "ai_thinking">>

CountType(evs, type) == Cardinality({i \in 1..Len(evs) : evs[i].type = type})

Hist(msgs, d) == SortById(SessionMsgs(msgs, d))

Ids(msgs) == {m.id : m \in msgs}

\* the history ends with [USER, ASSISTANT]
EndsWithPair(h) ==
  /\ Len(h) >= 2
  /\ h[Len(h) - 1].role = "USER"
  /\ h[Len(h)].role = "ASSISTANT"

\* a finished call that no other handler overlapped
RanAlone(t, kind) == t.kind = kind /\ t.pc = "done" /\ t.alone

NotFoundErrs == {"NoSession", "NoAssistant", "NoUser"}

\* the not-found error regenerate / edit raise on this state, or "none"
NotFoundCase(sess, msgs, d) ==
  IF d \notin sess THEN "NoSession"
  ELSE IF LastAssistant(msgs, d) = 0 THEN "NoAssistant"
  ELSE IF LastUserAtOrBefore(msgs, d, LastAssistant(msgs, d)) = 0 THEN "NoUser"
  ELSE "none"

\* C5: regenerateLastMessage and editLastMessage fail when the doctor has no
\* session, no ASSISTANT message, or no USER message at or before the last
\* ASSISTANT message; such a failure creates no session, creates, updates or
\* deletes no message, does not invoke the agent, and the gateway turns it
\* into one error event.
C5_NotFoundFailsClean ==
  \A s \in Slots :
    LET t == task[s] IN
    (t.kind \in {"regenerate", "edit"} /\ t.pc = "done") =>
      /\ t.err \in NotFoundErrs =>
           /\ t.writes = 0
           /\ t.agentRuns = 0
           /\ t.asstId = 0
           /\ t.events = <<Ev("ai_thinking", "true", 0), Ev("error", "", 0),
                           Ev("ai_thinking", "false", 0)>>
      /\ (t.alone /\ NotFoundCase(t.preSessions, t.pre, t.doctorId) # "none") =>
           /\ t.err = NotFoundCase(t.preSessions, t.pre, t.doctorId)
           /\ messages = t.pre
           /\ sessions = t.preSessions

\* a regenerate or edit that failed for want of a USER message
C5_Witness ==
  \E s \in Slots :
    /\ task[s].kind \in {"regenerate", "edit"}
    /\ task[s].pc = "done"
    /\ task[s].err = "NoUser"

Quiescent == \A s \in Slots : task[s].kind = "none"

Alternates(h) ==
  \A i \in 1..Len(h) : h[i].role = IF i % 2 = 1 THEN "USER" ELSE "ASSISTANT"

\* C6 as claimed: in every quiescent state the messages of a session,
\* ordered by creation, strictly alternate USER, ASSISTANT.
C6_StrictAlternation ==
  Quiescent => \A d \in Doctors : Alternates(Hist(messages, d))

(***************************************************************************)
(* Properties of the patient directory                                     *)
(***************************************************************************)
ActiveNames(pats, d, h) ==
  {p.normalizedName : p \in {q \in OfPair(pats, d, h) : q.isActive}}

\* C7: when syncPatientList returns and no other sync ran meanwhile, the
\* active patients of (doctorId, emrSystem) are exactly the normalized census
\* (empty and duplicated censuses included), the rows of other doctors and
\* other EMR systems are the ones from before the run, and no row was deleted.
C7_SyncPostcondition ==
  \A r \in RunIds :
    LET t == sync[r] IN
    (t.st = "done" /\ t.alone) =>
      /\ ActiveNames(patients, t.doctorId, t.emrSystem) = CensusNorm(t.census)
      /\ patients \ OfPair(patients, t.doctorId, t.emrSystem)
           = t.pre \ OfPair(t.pre, t.doctorId, t.emrSystem)
      /\ KeysOf(t.pre) \subseteq KeysOf(patients)
      /\ t.upserted = Len(t.census)

\* a sync that ran alone, with a duplicated census entry, deactivated a
\* patient that was active before and left another hospital's patient alone
C7_Witness ==
  \E r \in RunIds :
    LET t == sync[r] IN
    /\ t.st = "done" /\ t.alone
    /\ Len(t.census) = 2 /\ t.census[1] = t.census[2]
    /\ t.deactivated = 1
    /\ \E p \in t.pre : p.isActive /\ p.doctorId = t.doctorId
                          /\ p.emrSystem # t.emrSystem
    /\ \E p \in OfPair(patients, t.doctorId, t.emrSystem) : ~p.isActive
\* the two spellings of one name and their first tokens
SurnameToken == FirstToken(Normalized[NameGJ])
GivenToken == FirstToken(Normalized[NameJG])

\* the last two calls were resolvePatient with the same doctor and hospital,
\* one in "Surname, Given" order and one in "Given Surname" order, and
\* exactly one active patient's normalizedName starts with the surname token
BothOrdersAsked ==
  /\ prev.op = "resolve" /\ ret.op = "resolve"
  /\ prev.doctorId = ret.doctorId /\ prev.hospital = ret.hospital
  /\ {prev.name, ret.name} = {NameGJ, NameJG}
  /\ Cardinality(PrefixMatches(patients, ret.doctorId, ret.hospital,
                               SurnameToken)) = 1

SamePatient == prev.found /\ ret.found /\ prev.patient = ret.patient

\* C8 as stated: with exactly one active patient whose normalizedName starts
\* with the surname token, resolvePatient returns the same Patient for the
\* "Surname, Given" and the "Given Surname" spelling, whatever other active
\* patients exist.
C8_SameInEitherOrder == BothOrdersAsked => SamePatient

\* C8, amended: the two spellings resolve to the same Patient when, in
\* addition, that patient is the only active patient of the doctor and
\* hospital whose normalizedName contains the given-name token.
C8_SameWhenGivenNameUnique ==
  (/\ BothOrdersAsked
   /\ ContainsMatches(patients, ret.doctorId, ret.hospital, GivenToken)
        = PrefixMatches(patients, ret.doctorId, ret.hospital, SurnameToken))
    => SamePatient

\* both spellings were resolved against a directory with other active
\* patients, and the given-name spelling matched through the contains tier
C8_Witness ==
  /\ BothOrdersAsked
  /\ ContainsMatches(patients, ret.doctorId, ret.hospital, GivenToken)
       = PrefixMatches(patients, ret.doctorId, ret.hospital, SurnameToken)
  /\ ret.name = NameJG
  /\ Cardinality(ActiveOf(patients, ret.doctorId, ret.hospital)) = 1
  /\ Cardinality(OfPair(patients, ret.doctorId, ret.hospital)) >= 2
  /\ SamePatient

DataOps == {"summary", "insurance"}

\* C9: the patient the Summary or Insurance tool answers about is one that
\* resolvePatient can return for the same doctor, hospital and name, and the
\* tool answers not-found exactly when resolvePatient returns not found.
C9_ToolAgreesWithResolve ==
  ret.op \in DataOps =>
    LET R == ResolveSet(patients, ret.doctorId, ret.hospital, ret.name) IN
    /\ ret.found <=> R # {}
    /\ ret.found => \E p \in R : PatientId(p) = ret.patient

DataTypeOf(op) == IF op = "summary" THEN "SUMMARY" ELSE "INSURANCE"

StoredFor(call) ==
  {x \in rawData : x.patientId = call.patient /\ x.dataType = DataTypeOf(call.op)}

IsNotFoundPayload(call) ==
  /\ DOMAIN call.payload = {"error", "message"}
  /\ call.payload.error

IsNoDataPayload(call) ==
  /\ DOMAIN call.payload = {"error", "patientName", "hospital", "message"}
  /\ call.payload.error
  /\ call.payload.hospital = call.hospital
  /\ \E p \in patients : PatientId(p) = call.patient
                          /\ p.name = call.payload.patientName

IsDataPayload(call) ==
  /\ DOMAIN call.payload = {"patientName", "hospital", "extractedAt", "rawContent"}
  /\ call.payload.hospital = call.hospital
  /\ \E p \in patients : PatientId(p) = call.patient
                          /\ p.name = call.payload.patientName
  /\ \E x \in StoredFor(call) : x.rawContent = call.payload.rawContent

\* C10: the Summary and Insurance tools answer every request with the payload
\* of its data condition: not found (error, no patientName), found without
\* raw data of the type (error with patientName and hospital), or the data
\* (patientName, hospital, extractedAt and the stored rawContent unchanged);
\* the List tool answers count 0 with a message when no patient is active.
C10_ToolPayloads ==
  /\ ret.op \in DataOps =>
       IF ~ret.found THEN IsNotFoundPayload(ret)
       ELSE IF StoredFor(ret) = {} THEN IsNoDataPayload(ret)
       ELSE IsDataPayload(ret)
  /\ (ret.op = "list" /\ ActiveOf(patients, ret.doctorId, ret.hospital) = {}) =>
       /\ "message" \in DOMAIN ret.payload
       /\ ret.payload.count = 0
       /\ ret.payload.patients = <<>>

\* the Insurance tool returned stored content while the patient it found has
\* a summary as well
C10_Witness ==
  /\ ret.op = "insurance"
  /\ IsDataPayload(ret)
  /\ ret.payload.rawContent \in RawTexts
  /\ \E x \in rawData : x.patientId = ret.patient /\ x.dataType = "SUMMARY"

BatchOps == {"batch_summary", "batch_insurance", "batch_list"}

\* the payloads the single-entity tool can return for target i of a batch call
SlotPayloads(call, i) ==
  IF call.op = "batch_list"
  THEN {ListPayload(patients, call.doctorId, call.name[i])}
  ELSE DataToolPayloads(patients, rawData,
         IF call.op = "batch_summary" THEN "SUMMARY" ELSE "INSURANCE",
         call.doctorId, call.hospital, call.name[i])

\* the call returned an array (call.found) with one slot per target
OneSlotPerTarget(call) ==
  /\ call.found
  /\ Len(call.payload) = Len(call.name)
  /\ \A i \in 1..Len(call.name) : call.payload[i] \in SlotPayloads(call, i)

\* C11: a batch tool returns one slot per target, in input order, each slot
\* being the single-entity tool's result for that target; a target whose
\* single-entity call fails has its own error payload in its slot and the
\* slots of the other targets are still returned.
C11_BatchSlots == ret.op \in BatchOps => OneSlotPerTarget(ret)

\* what does hold: a batch call that returns has one slot per target, in
\* input order, each slot a result of the single-entity tool for its target
BatchReturnsSlots ==
  (ret.op \in BatchOps /\ ret.found) => OneSlotPerTarget(ret)

\* the list batch for [JACKSON, STEWARD] with active patients at JACKSON only
\* returned two slots, the second with count 0 and a message
C11_Witness ==
  /\ ret.op = "batch_list" /\ ret.found
  /\ ret.name = <<"JACKSON", "STEWARD">>
  /\ Len(ret.payload) = 2
  /\ ret.payload[1].count = 2
  /\ ret.payload[2].count = 0 /\ "message" \in DOMAIN ret.payload[2]

(***************************************************************************)
(* Properties of getSession                                                *)
(***************************************************************************)
\* the ids of a session, oldest first
AscIds(msgs, d) ==
  LET q == SortById(SessionMsgs(msgs, d)) IN [i \in 1..Len(q) |-> q[i].id]

\* a getSession call that has returned
Returned(t) == t.kind = "get" /\ t.pc = "done" /\ t.err = "none"

InPage(t, id) == \E i \in 1..Len(t.page) : t.page[i] = id

\* C12 as stated: a page that contains the oldest message of the session
\* comes with no nextCursor (limit 2 on exactly 2 messages: undefined).
C12_NoCursorAtOldest ==
  \A s \in Slots :
    LET t == task[s] IN
    (/\ Returned(t)
     /\ SessionMsgs(messages, t.doctorId) # {}
     /\ InPage(t, AscIds(messages, t.doctorId)[1]))
      => t.nextCursor = 0

\* C12, amended: nextCursor is absent exactly when fewer than limit messages
\* were returned. A full page carries the id of its oldest message as
\* nextCursor also when that message is the oldest of the session (limit 2 on
\* exactly 2 messages returns both and nextCursor = the older id); the call
\* with that cursor then returns no message and no nextCursor.
C12_CursorIffFullPage ==
  \A s \in Slots :
    LET t == task[s]
        all == AscIds(messages, t.doctorId)
    IN Returned(t) =>
         /\ t.nextCursor = 0 <=> Len(t.page) < t.limit
         /\ t.nextCursor # 0 => t.nextCursor = t.page[1]
         /\ (t.cursor = 0 /\ t.limit = 2 /\ Len(all) = 2)
              => t.page = all /\ t.nextCursor = all[1]
         /\ (t.cursor # 0 /\ all # <<>> /\ t.cursor = all[1])
              => t.page = <<>> /\ t.nextCursor = 0

\* getSession with limit 2 returned both messages of a session that holds
\* exactly two, together with a nextCursor
C12_Witness ==
  \E s \in Slots :
    LET t == task[s] IN
    /\ Returned(t) /\ t.cursor = 0 /\ t.limit = 2
    /\ Len(AscIds(messages, t.doctorId)) = 2
    /\ Len(t.page) = 2 /\ t.nextCursor = t.page[1]

\* no message was written since the first call of the walk
NoWritesSince(t) == messages = t.snap

\* C13: with no writes in between, every page is oldest-first; a full page
\* has nextCursor = the id of its oldest message and a shorter page has none;
\* the pages obtained by following nextCursor are consecutive older stretches
\* of the session (no overlap, no gap); the walk ends after at most
\* count / limit + 1 calls and has then returned every message exactly once.
C13_WalkCoversSession ==
  \A s \in Slots :
    LET t == task[s]
        all == AscIds(messages, t.doctorId)
    IN (Returned(t) /\ NoWritesSince(t)) =>
         /\ \A i, j \in 1..Len(t.page) : i < j => t.page[i] < t.page[j]
         /\ IF Len(t.page) = t.limit THEN t.nextCursor = t.page[1]
            ELSE t.nextCursor = 0
         /\ Len(t.seen) <= Len(all)
         /\ t.seen = SliceLast(all, Len(t.seen))
         /\ t.pages <= (Len(all) \div t.limit) + 1
         /\ t.nextCursor = 0 => t.seen = all

\* a walk of two calls with limit 2 over a session of three messages, the
\* other doctor having a session of its own, has ended
C13_Witness ==
  \E s \in Slots :
    LET t == task[s] IN
    /\ Returned(t) /\ NoWritesSince(t)
    /\ t.pages = 2 /\ t.limit = 2 /\ t.nextCursor = 0
    /\ Len(t.seen) = 3

(***************************************************************************)
(* Properties of the agent run                                             *)
(***************************************************************************)
\* the tool names an item of the stream carries
ItemNames(item) ==
  (IF item.cls = "ToolMessage" THEN <<item.name>> ELSE <<>>)
    \o item.chunks \o item.calls

RECURSIVE Flatten(_)
Flatten(items) ==
  IF items = <<>> THEN <<>>
  ELSE SelectSeq(ItemNames(Head(items)), LAMBDA n : n # "") \o Flatten(Tail(items))

\* the tool names of a stream, in the order in which they first appear
FirstAppearances(items) ==
  LET all == Flatten(items) IN
  SelectSeq([i \in 1..Len(all) |-> IF \E j \in 1..(i - 1) : all[j] = all[i]
                                   THEN "" ELSE all[i]],
            LAMBDA n : n # "")

\* the names the tool-call callback was fired with, in order
Fired(t) ==
  LET calls == SelectSeq(t.events, LAMBDA e : e.type = "ai_tool_call")
  IN [i \in 1..Len(calls) |-> calls[i].arg]

\* C14: within one agent run the tool-call callback fires exactly once for
\* each distinct tool name of the stream, whatever the number of appearances
\* and the signal, in the order of the first appearances; the only other
\* callback is the one for tool messages that carry no name.
C14_OneCallbackPerTool ==
  \A s \in Slots :
    LET t == task[s] IN
    t.kind \in WsKinds =>
      /\ SelectSeq(Fired(t), LAMBDA n : n # "unknown_tool")
           = FirstAppearances(t.stream)
      /\ Cardinality({i \in 1..Len(Fired(t)) : Fired(t)[i] = "unknown_tool"}) <= 1

\* a run whose stream names the same tool through two different signals
\* fired one callback
C14_Witness ==
  \E s \in Slots :
    LET t == task[s] IN
    /\ t.pc = "done" /\ t.kind = "send"
    /\ Len(t.stream) = 2
    /\ t.stream[1].cls # t.stream[2].cls
    /\ Len(Flatten(t.stream)) >= 2
    /\ Len(Fired(t)) = 1

\* empty or made of whitespace only
Blank(text) == \A i \in 1..Len(text) : text[i] \in Whitespace

\* C15: no ASSISTANT message with empty or whitespace-only content is ever
\* persisted; a send, regenerate or edit turn whose stream ended with blank
\* accumulated text persists the fixed fallback string and ends as a
\* successful turn: one ai_response_complete, no error.
C15_NoBlankAssistant ==
  /\ \A m \in messages : m.role = "ASSISTANT" => ~Blank(m.content)
  /\ \A s \in Slots :
       LET t == task[s] IN
       (WsDone(t) /\ t.agentRuns = 1 /\ ~t.agentThrew /\ Blank(t.fullText)) =>
         /\ t.aiText = FallbackText
         /\ t.err = "none"
         /\ CountType(t.events, "error") = 0
         /\ CountType(t.events, "ai_response_complete") = 1
         /\ t.events[Len(t.events) - 1] = Ev("ai_response_complete", "", t.asstId)
         /\ \A m \in messages : m.id = t.asstId => m.content = FallbackText

\* a regenerate turn whose stream carried only whitespace has ended and its
\* ASSISTANT message holds the fallback
C15_Witness ==
  \E s \in Slots :
    LET t == task[s] IN
    /\ WsDone(t) /\ t.kind = "regenerate" /\ ~t.agentThrew
    /\ t.fullText = <<" ">>
    /\ \E m \in messages : m.id = t.asstId /\ m.content = FallbackText

\* ---- C16 ----
\* the handshake of c carried no credential, an invalid one, or one that
\* resolves to no doctor
NoDoctor(c) == sock[c].st # "none" /\ VerifyToken(sock[c].token) = 0

Registered(c) == \E d \in Doctors : connectedDoctors[d] = c

Rejected16 ==
  \A c \in Conns : NoDoctor(c) =>
     /\ sock[c].joined = 0
     /\ ~Registered(c)
     /\ sock[c].doctorId = 0
     /\ sock[c].auth # "pending" => sock[c].st = "closed"

\* every turn of a socket handler was started from an authenticated socket
TurnsAuthenticated ==
  \A s \in Slots : task[s].kind \in WsKinds =>
     \E c \in Conns : sock[c].auth = "ok" /\ sock[c].doctorId = task[s].doctorId

\* an inbound event dropped at the guard starts no turn and emits nothing
DropIsSilent ==
  \A c \in Conns : (sock'[c].ignored /\ ~sock[c].ignored) =>
     /\ task' = task
     /\ inbox' = inbox
     /\ <<sessions, messages>>' = <<sessions, messages>>

\* C16: a connection whose handshake carries no credential, an invalid
\* credential or a credential of no non-deleted doctor is closed, is never
\* joined to a doctor room and never entered in connectedDoctors; an
\* inbound event on a connection that has not completed authentication
\* starts no turn and emits no event.
C16_UnauthenticatedShutOut ==
  /\ [](Rejected16 /\ TurnsAuthenticated)
  /\ [][DropIsSilent]_vars

\* a handshake with the credential of a deleted doctor was closed after an
\* inbound event on it had been dropped, while another socket runs a turn
C16_Witness ==
  \E c \in Conns :
     /\ sock[c].token = "gone" /\ sock[c].st = "closed" /\ sock[c].ignored
     /\ \E s \in Slots : task[s].kind \in WsKinds

\* ---- C17 ----
\* a is a run of consecutive elements of b
IsSegment(a, b) ==
  \E k \in 0..(Len(b) - Len(a)) : a = SubSeq(b, k + 1, k + Len(a))

\* C17 as stated: every open authenticated socket of the turn's doctor has
\* received all events of the turn, and the sockets of other doctors none.
C17_SameSequence ==
  \A s \in Slots : task[s].kind \in WsKinds =>
     \A c \in Conns :
        /\ (sock[c].st = "connected" /\ sock[c].auth = "ok"
              /\ sock[c].doctorId = task[s].doctorId)
              => inbox[c][s] = task[s].events
        /\ sock[c].doctorId # task[s].doctorId => inbox[c][s] = <<>>

\* C17 (amended): the events of a turn go to the room of the sending doctor:
\* a socket that was in the room when the turn started and is still open has
\* received all its events in order, any socket of the doctor has received a
\* run of consecutive events of it, and a socket of another doctor none.
C17_RoomDelivery ==
  \A s \in Slots : task[s].kind \in WsKinds =>
     \A c \in Conns :
        /\ (c \in task[s].audience /\ InRoom(c, task[s].doctorId))
              => inbox[c][s] = task[s].events
        /\ IsSegment(inbox[c][s], task[s].events)
        /\ sock[c].doctorId # task[s].doctorId => inbox[c][s] = <<>>

\* two open sockets of doctor 1 have both received the whole turn up to its
\* completion event, or a socket of doctor 2 is open during a turn of doctor 1
C17_Witness ==
  /\ task[1].kind = "send" /\ task[1].pc = "done"
  /\ task[1].audience = Conns
  /\ \A c \in Conns : InRoom(c, 1) /\ Len(inbox[c][1]) >= 3

C17_OtherDoctorWitness ==
  /\ task[1].kind = "send" /\ Len(task[1].events) >= 3
  /\ \E c \in Conns : InRoom(c, 2) /\ task[1].doctorId = 1

\* ---- C18 ----
\* the socket c is closed by this step
Closes(c) == sock[c].st = "connected" /\ sock'[c].st = "closed"

DisconnectKeepsData ==
  (\E c \in Conns : Closes(c)) =>
     /\ <<sessions, messages>>' = <<sessions, messages>>
     /\ task' = task

NoOpenSocket == \A c \in Conns : sock[c].st # "connected"

\* a send turn has persisted its USER message, the agent has not finished
\* and every socket is closed
OrphanTurn ==
  /\ task[1].kind = "send" /\ task[1].userId # 0
  /\ task[1].pc \in {"loadHistory", "stream"}
  /\ NoOpenSocket

AssistantPersisted ==
  /\ task[1].asstId # 0
  /\ \E m \in messages : /\ m.id = task[1].asstId
                         /\ m.role = "ASSISTANT"
                         /\ m.sessionId = task[1].doctorId

\* C18: a disconnect changes no ChatSession and no Message and leaves the
\* running handlers as they are; a send turn whose sockets all closed after
\* its USER message was persisted and before the agent finished still
\* persists its ASSISTANT message.
C18_DisconnectKeepsTurn ==
  /\ [][DisconnectKeepsData]_vars
  /\ (OrphanTurn ~> AssistantPersisted)

\* a socket that saw the start of the turn closed before its end, and the
\* turn has persisted its ASSISTANT message with no socket open
C18_Witness ==
  /\ AssistantPersisted
  /\ NoOpenSocket
  /\ \E c \in task[1].audience :
        /\ Len(inbox[c][1]) >= 2
        /\ Len(inbox[c][1]) < Len(task[1].events)

\* ---- C19 ----
Quiet == \A g \in IngestIds : ingest[g].st = "idle"

OneRowPerPair ==
  \A x, y \in rawData :
     (x.patientId = y.patientId /\ x.dataType = y.dataType) => x = y

\* the row holds what the latest ingestion for its pair delivered
HoldsLatest == \A x \in rawData : x.extractedAt = x.latest

\* C19: after any interleaving of raw-data ingestions of one doctor and
\* hospital there is at most one PatientRawData row per (patientId,
\* dataType), and it holds the content of the latest ingestion that matched
\* the patient for that type.
C19_OneRowLatest == Quiet => (OneRowPerPair /\ HoldsLatest)

\* supplementary: every row holds what some ingestion that matched its
\* patient delivered, never anything newer than the latest of them
C19_RowsWellFormed ==
  \A x \in rawData : x.extractedAt <= x.latest /\ x.extractedAt >= 1

\* ---- C20 ----
SessionKinds == {"get", "http", "send", "rpa"}

\* chatSession rows are keyed by their unique doctorId, so sessions holds at
\* most one row per doctor; no step removes one
NoSessionDeleted == sessions \subseteq sessions'

\* a session is created only for a doctor that has none, by an interaction
\* of that doctor that found none
CreatedByFinder ==
  \A d \in Doctors : (d \in sessions' /\ d \notin sessions) =>
     \E s \in Slots : /\ task[s].kind \in SessionKinds
                      /\ task[s].doctorId = d
                      /\ task[s].pc = "createSession"
                      /\ task'[s].err = "none"

\* no interaction fails on the session it tried to create
NoSessionFailure == \A s \in Slots : task[s].err # "SessionExists"

\* C20: after any interleaving of getSession, createMessage,
\* sendMessageWithEvents and RPA error reports each doctor has at most one
\* ChatSession, created only by the first interaction that finds none; every
\* interaction of a doctor without a session succeeds, also when two of them
\* run concurrently; no operation deletes a session.
C20_SessionFindOrCreate ==
  /\ [][NoSessionDeleted /\ CreatedByFinder]_vars
  /\ []NoSessionFailure

\* supplementary: what holds of the session table under every interleaving
C20_SessionsOnlyGrow == [][NoSessionDeleted /\ CreatedByFinder]_vars

\* ---- C21 ----
UserRowOf(t) ==
  \E m \in messages : /\ m.id = t.userId /\ m.role = "USER"
                      /\ m.sessionId = t.doctorId /\ m.content = t.content

\* the step in which createMessage returns to the controller
HttpReturns(s) == task'[s].httpReturned /\ ~task[s].httpReturned

ReturnsBeforeAgent ==
  \A s \in Slots : HttpReturns(s) =>
     /\ task'[s].agentRuns = 0 /\ task'[s].asstId = 0 /\ task'[s].err = "none"
     /\ \E m \in messages' : m.id = task'[s].userId /\ m.role = "USER"
                             /\ m.content = task'[s].content

HttpAfterReturn ==
  \A s \in Slots : (task[s].kind = "http" /\ task[s].httpReturned) =>
     LET t == task[s] IN
     /\ UserRowOf(t)
     /\ t.err = "none"
     /\ t.events = <<>>
     /\ \A c \in Conns : inbox[c][s] = <<>>
     /\ (t.pc = "done" /\ ~t.logged) =>
           \E m \in messages : /\ m.id = t.asstId /\ m.id > t.userId
                               /\ m.role = "ASSISTANT" /\ m.content = t.aiText
     /\ t.logged => t.asstId = 0

\* C21: createMessage with role USER persists the USER message and returns
\* it before the agent runs; the ASSISTANT reply is persisted later by the
\* detached processing, with no event emitted to the room; a failure of the
\* detached processing is caught and logged, leaves the USER message
\* persisted and does not reach the HTTP caller.
C21_HttpFireAndForget == [][ReturnsBeforeAgent]_vars /\ []HttpAfterReturn

\* a POST whose agent ran ended in the catch of the detached processing
\* while the doctor's socket was in the room
C21_Witness ==
  /\ InRoom("c1", 1)
  /\ \E s \in Slots : /\ task[s].kind = "http" /\ task[s].pc = "done"
                      /\ task[s].httpReturned /\ task[s].logged
                      /\ task[s].agentRuns = 1

\* a POST ended with its reply persisted
C21_ReplyWitness ==
  \E s \in Slots : /\ task[s].kind = "http" /\ task[s].pc = "done"
                   /\ task[s].asstId # 0 /\ InRoom("c1", 1)

\* ---- C22 ----
InCensus(p, t) ==
  /\ p.doctorId = t.doctorId /\ p.emrSystem = t.emrSystem
  /\ p.normalizedName \in CensusNorm(t.census)

ActiveNow(p) ==
  \E q \in patients : /\ SameKey(q, p.doctorId, p.emrSystem, p.normalizedName)
                      /\ q.isActive

\* while a run that nothing interleaves with is under way or has just
\* returned, every patient of its census that was active before it is active
NoFlicker ==
  \A r \in RunIds :
     LET t == sync[r] IN
     (t.alone /\ t.st \in {"upsert", "done"}) =>
        \A p \in t.pre : (p.isActive /\ InCensus(p, t)) => ActiveNow(p)

\* the updateMany of run r is the step that takes r to "done"
Deactivates(r) == sync[r].st = "upsert" /\ sync'[r].st = "done"

\* the upserts of a run all precede its deactivation, which spares every
\* patient of the census
SparesCensus ==
  \A r \in RunIds :
     LET t == sync[r] IN
     /\ Deactivates(r) =>
          /\ t.upserted = Len(t.census)
          /\ \A p \in patients : (p.isActive /\ InCensus(p, t)) =>
                \E q \in patients' :
                   /\ SameKey(q, p.doctorId, p.emrSystem, p.normalizedName)
                   /\ q.isActive
     /\ (sync'[r].upserted # t.upserted /\ t.st = "upsert") => t.deactivated = 0

\* C22: syncPatientList performs all upserts before its single deactivation
\* step and deactivates by the normalized names of the whole census: no
\* patient that was active before the run and is in the census is seen
\* inactive at any state of the run, and the run deactivates no patient of
\* its census.
C22_UpsertAllThenDeactivate == []NoFlicker /\ [][SparesCensus]_vars

\* a run returned having kept a patient of its census that was active
\* before it and having deactivated another patient
C22_Witness ==
  \E r \in RunIds :
     LET t == sync[r] IN
     /\ t.st = "done" /\ t.alone /\ t.deactivated > 0
     /\ \E p \in t.pre : p.isActive /\ InCensus(p, t)

\* a run on a census of two patients that were both active before it
\* returned
C22_WholeCensusWitness ==
  \E r \in RunIds :
     LET t == sync[r] IN
     /\ t.st = "done" /\ t.alone /\ Cardinality(CensusNorm(t.census)) = 2
     /\ \A n \in CensusNorm(t.census) :
           \E p \in t.pre : p.isActive /\ InCensus(p, t) /\ p.normalizedName = n

\* ---- C23 ----
\* the active patients of the call's doctor and hospital, now
Candidates(call) ==
  {p \in patients : /\ p.doctorId = call.doctorId
                    /\ p.emrSystem = call.hospital /\ p.isActive}

Tier(call, p) ==
  LET n == Normalized[call.name]
      tok == FirstToken(n)
  IN IF p.normalizedName = n THEN 1
     ELSE IF StartsWith(p.normalizedName, tok) THEN 2
     ELSE IF Contains(p.normalizedName, tok) THEN 3
     ELSE 4

\* C23: resolvePatient returns only an active patient of the given doctor
\* and hospital, of the most specific tier that has a match (equal to the
\* normalized input, else starting with its first token, else containing
\* it), and not found when no tier matches.
C23_MostSpecificTier ==
  ret.op = "resolve" =>
     IF ret.found
     THEN \E p \in Candidates(ret) :
             /\ PatientId(p) = ret.patient
             /\ Tier(ret, p) <= 3
             /\ \A q \in Candidates(ret) : Tier(ret, p) <= Tier(ret, q)
     ELSE \A q \in Candidates(ret) : Tier(ret, q) = 4

\* a patient was returned by the contains tier; another call was answered by
\* the exact tier while a different patient matched by prefix
C23_Witness ==
  /\ ret.op = "resolve" /\ ret.found
  /\ \E p \in Candidates(ret) : PatientId(p) = ret.patient /\ Tier(ret, p) = 3

C23_ExactWitness ==
  /\ ret.op = "resolve" /\ ret.found
  /\ \E p, q \in Candidates(ret) :
        PatientId(p) = ret.patient /\ Tier(ret, p) = 1 /\ Tier(ret, q) = 2

\* ---- C24 ----
SendRunning(s) == task[s].kind = "send" /\ task[s].pc # "done"

\* a second send_message of the doctor is taken up while a turn is running
SecondAdmitted ==
  (/\ SendRunning(1) /\ task[2].kind = "none"
   /\ InRoom("c1", task[1].doctorId)
   /\ CanStartUpTo(MaxRaceId, "send"))
  => ENABLED StartTurnUpTo(MaxRaceId, 2, "c1", "send", <<"b">>)

\* both runs go on over the one session of the doctor: neither turn fails
\* or waits because of the other once the session exists
BothProceed ==
  \A s \in Slots : (task[s].kind = "send" /\ task[s].userId # 0) =>
     /\ task[s].err = "none"
     /\ task[s].doctorId \in sessions
     /\ \E m \in messages : m.id = task[s].userId /\ m.sessionId = task[s].doctorId

\* C24: turns are not serialized per doctor: a second send_message arriving
\* before the first turn's ai_response_complete starts its own agent run
\* over the same session.
C24_TurnsNotSerialized == SecondAdmitted /\ BothProceed

LastEvent(q) == q[Len(q)]

\* both USER messages were persisted before either ASSISTANT message, and
\* the room has received ai_thinking{status:false} of one turn while the
\* other turn is streaming
C24_Witness ==
  \E a, b \in Slots :
     /\ a # b
     /\ task[a].kind = "send" /\ task[a].pc = "done" /\ task[a].asstId # 0
     /\ task[b].kind = "send" /\ task[b].pc = "stream"
     /\ task[b].doctorId = task[a].doctorId
     /\ task[a].userId < task[a].asstId /\ task[b].userId < task[a].asstId
     /\ LastEvent(inbox["c1"][a]) = Ev("ai_thinking", "false", 0)
     /\ LastEvent(inbox["c1"][b]) = Ev("ai_streaming", "x", 0)

(***************************************************************************)
(* C25: the persisted answer against the streamed chunks                   *)
(***************************************************************************)
RECURSIVE ChunkConcat(_)
\* the in-order concatenation of the chunks the turn emitted as ai_streaming
ChunkConcat(evs) ==
  IF evs = <<>> THEN <<>>
  ELSE (IF Head(evs).type = "ai_streaming" THEN <<Head(evs).arg>> ELSE <<>>)
         \o ChunkConcat(Tail(evs))

\* the turn ended with ai_response_complete
Completed(t) == WsDone(t) /\ CountType(t.events, "ai_response_complete") = 1

\* the ASSISTANT content the claim expects for the turn
StreamedOrFallback(t) ==
  IF IsBlank(ChunkConcat(t.events)) THEN FallbackText ELSE ChunkConcat(t.events)

\* the ASSISTANT row of the turn, as far as it is still stored, holds the text
CarriedContentIs(t, text) ==
  /\ t.aiText = text
  /\ Ev("ai_response_complete", "", t.asstId) = t.events[Len(t.events) - 1]
  /\ \A m \in messages : m.id = t.asstId => m.role = "ASSISTANT" /\ m.content = text

C25_ThrownWitness ==
  \E s \in Slots :
    /\ Completed(task[s])
    /\ task[s].agentThrew
    /\ ~IsBlank(ChunkConcat(task[s].events))
    /\ \E m \in messages : m.id = task[s].asstId /\ m.content = ApologyText

(***************************************************************************)
(* C26: the turn's user message in the list handed to the model            *)
(***************************************************************************)
\* ids of the rows message.findMany(orderBy createdAt desc, take 10) returns
HistoryIds(msgs, d) ==
  LET desc == Reverse(SortById(SessionMsgs(msgs, d)))
      page == Take(desc, HistoryTake)
  IN {page[i].id : i \in 1..Len(page)}

\* the USER row of the turn: the one persisted by a send turn, the one
\* re-used by a regenerate turn or edited by an edit turn
TurnUserRow(t) == IF t.kind = "send" THEN t.userId ELSE t.lu

\* the step of handler s that loads the history and calls the agent
LoadsHistory(s) ==
  /\ task[s].kind \in WsKinds
  /\ task[s].pc = "loadHistory"
  /\ task'[s].pc = "stream"

\* occurrences of the message [USER, content] in a message list
Occurrences(list, content) ==
  Cardinality({i \in 1..Len(list) :
                 list[i] = [role |-> "USER", content |-> content]})

\* the history loaded does not contain the USER row of the turn, and the
\* list handed to the model ends with the turn's user message
HistoryExcludesTurn(s) ==
  LoadsHistory(s) =>
    /\ TurnUserRow(task[s]) \notin HistoryIds(messages, task[s].doctorId)
    /\ task'[s].modelInput[Len(task'[s].modelInput)]
         = [role |-> "USER", content |-> task[s].userMessage]

\* C26 as claimed: in the message list passed to the model for a send,
\* regenerate or edit turn, the turn's user message appears exactly once, as
\* the final message: the history loaded for the turn does not also contain
\* the USER message just persisted, re-used or edited.
C26_UserMessageOnce == [][\A s \in Slots : HistoryExcludesTurn(s)]_vars

\* what the code does instead, for a turn that no other handler overlaps:
\* the history loaded contains the USER row of the turn, so the list handed
\* to the model carries the turn's user message at least twice, the last two
\* messages of it being that message
HistoryIncludesTurn(s) ==
  (LoadsHistory(s) /\ task[s].alone /\ ~OthersActive(s)) =>
    /\ TurnUserRow(task[s]) \in HistoryIds(messages, task[s].doctorId)
    /\ Occurrences(task'[s].modelInput, task[s].userMessage) >= 2
    /\ Len(task'[s].modelInput) >= 2
    /\ task'[s].modelInput[Len(task'[s].modelInput)]
         = task'[s].modelInput[Len(task'[s].modelInput) - 1]

C26_UserMessageTwice == [][\A s \in Slots : HistoryIncludesTurn(s)]_vars

\* a send, a regenerate and an edit turn have each been handed their list
C26_SendWitness ==
  \E s \in Slots : task[s].kind = "send" /\ task[s].pc = "stream"
                   /\ Occurrences(task[s].modelInput, task[s].userMessage) = 2

C26_RegenerateWitness ==
  \E s \in Slots : task[s].kind = "regenerate" /\ task[s].pc = "stream"
                   /\ Occurrences(task[s].modelInput, task[s].userMessage) = 2

C26_EditWitness ==
  \E s \in Slots : task[s].kind = "edit" /\ task[s].pc = "stream"
                   /\ Occurrences(task[s].modelInput, task[s].userMessage) = 2

(***************************************************************************)
(* C27: two regenerate turns of one doctor that interleave                 *)
(***************************************************************************)
\* id of the most recent USER row of the doctor's session, 0 when none
LastUser(msgs, d) ==
  LET U == {m \in SessionMsgs(msgs, d) : m.role = "USER"}
  IN IF U = {} THEN 0 ELSE (CHOOSE m \in U : \A y \in U : y.id <= m.id).id

\* handler s is a regenerate turn
Regenerating(s) == task[s].kind = "regenerate" /\ Active(task[s])

\* the step of regenerate turn s that deletes an ASSISTANT row
RegenDeletes(s) ==
  /\ Regenerating(s)
  /\ task[s].pc = "deleteAssistant"
  /\ task'[s].pc = "loadHistory"

\* the step of regenerate turn s that starts its agent run
RegenRuns(s) ==
  /\ Regenerating(s)
  /\ task[s].pc = "loadHistory"
  /\ task'[s].pc = "stream"

\* the row deleted answers the most recent USER message, and the agent run
\* is started on the most recent USER message
SparesEarlier(s) ==
  /\ RegenDeletes(s) => task[s].la > LastUser(messages, task[s].doctorId)
  /\ RegenRuns(s) => task[s].lu = LastUser(messages, task[s].doctorId)

\* C27 as claimed: when two regenerate_message turns of the same doctor
\* interleave, the only ASSISTANT message deleted is the one that was the
\* most recent when the first of them began: no ASSISTANT message answering
\* an earlier USER message is deleted and no agent run is started on an
\* earlier USER message.
C27_RegenerateRaceSafe == [][\A s \in Slots : SparesEarlier(s)]_vars

\* a regenerate turn that no other handler overlaps deletes the ASSISTANT
\* row answering the most recent USER message and runs the agent on it
C27_RegenerateAloneSafe ==
  [][\A s \in Slots : (task[s].alone /\ ~OthersActive(s)) => SparesEarlier(s)]_vars

\* two regenerate turns are under way after two send turns completed, one
\* of them having deleted the most recent ASSISTANT row
C27_Witness ==
  /\ \A s \in Slots : Regenerating(s)
  /\ Cardinality({m \in messages : m.role = "USER"}) = 2
  /\ Cardinality({m \in messages : m.role = "ASSISTANT"}) = 1
  /\ \E s \in Slots : task[s].pc = "loadHistory"

\* the answer to the first USER message has been deleted and an agent run
\* started on the first USER message, the second USER message being stored
C27_LostAnswerWitness ==
  /\ \E s \in Slots : Regenerating(s) /\ task[s].pc = "stream"
                      /\ task[s].lu < LastUser(messages, task[s].doctorId)
  /\ Cardinality({m \in messages : m.role = "USER"}) = 2
  /\ \A m \in messages : m.role = "ASSISTANT" => m.id > 4

(***************************************************************************)
(* C28: the connectedDoctors registry                                      *)
(***************************************************************************)
\* connection c is open and authenticated as doctor d
OpenAs(c, d) == sock[c].st = "connected" /\ sock[c].doctorId = d

HasEntry(d) == connectedDoctors[d] # "none"

\* C28 as claimed: for any interleaving of connects and disconnects, several
\* simultaneous connections of one doctor and a disconnect during a pending
\* authentication included, connectedDoctors holds an entry for doctor d
\* exactly when at least one authenticated connection of d is open, and the
\* connection id stored for d is that of an open connection.
C28_RegistryExact ==
  \A d \in Doctors :
    /\ HasEntry(d) <=> \E c \in Conns : OpenAs(c, d)
    /\ HasEntry(d) => sock[connectedDoctors[d]].st = "connected"

\* what holds of the registry: an entry for d names a connection that was
\* authenticated as d, the last one of d to authenticate since the last
\* disconnect of a connection of d
C28_EntryWasAuthenticated ==
  \A d \in Doctors :
    HasEntry(d) => /\ sock[connectedDoctors[d]].doctorId = d
                     /\ sock[connectedDoctors[d]].auth = "ok"

\* two connections of doctor 1 were open; one has closed and the registry
\* has no entry although the other is open and authenticated
C28_SecondTabWitness ==
  /\ ~HasEntry(1)
  /\ \E c \in Conns : OpenAs(c, 1)
  /\ \E c \in Conns : sock[c].st = "closed" /\ sock[c].doctorId = 1

\* a connection that closed while verifyToken was pending is registered
C28_StaleEntryWitness ==
  /\ HasEntry(1)
  /\ \A c \in Conns : ~OpenAs(c, 1)
  /\ sock[connectedDoctors[1]].st = "closed"

(***************************************************************************)
(* C29: two syncs of one (doctorId, emrSystem) that interleave             *)
(***************************************************************************)
\* run r has returned and no other run is under way: of the runs that
\* overlapped, r is the one that finished last
FinishedLast(r) == sync[r].st = "done" /\ ~OtherRuns(r)

\* the updateMany of a run leaves nothing active outside its census, so when
\* a run returns the active set of its pair is within its census
C29_ActiveWithinCensus ==
  \A r \in RunIds :
    sync[r].st = "done" =>
      ActiveNames(patients, sync[r].doctorId, sync[r].emrSystem)
        \subseteq CensusNorm(sync[r].census)

\* C29 as claimed: when two syncPatientList runs for the same (doctorId,
\* emrSystem) with different censuses interleave, after both have finished
\* the active set of the pair equals the normalized census of one of the
\* runs, and no patient of the census of the run that finished last is left
\* inactive. (The active set being within the census of the run that
\* finished last, the two requirements together say that it is that census.)
C29_LastSyncWins ==
  \A r \in RunIds :
    FinishedLast(r) =>
      ActiveNames(patients, sync[r].doctorId, sync[r].emrSystem)
        = CensusNorm(sync[r].census)

\* two runs of (1, JACKSON) interleaved, with the censuses [G, J] and [g m];
\* the second has returned and both patients are inactive
C29_BothInactiveWitness ==
  \E r \in RunIds :
    /\ FinishedLast(r)
    /\ ~sync[r].alone
    /\ sync[r].doctorId = 1 /\ sync[r].emrSystem = "JACKSON"
    /\ sync[r].census = <<NameGM>>
    /\ KeysOf(OfPair(patients, 1, "JACKSON"))
         = {<<1, "JACKSON", Normalized[NameGJ]>>, <<1, "JACKSON", Normalized[NameGM]>>}
    /\ ActiveNames(patients, 1, "JACKSON") = {}

(***************************************************************************)
(* C30: a name whose normalized form is empty                              *)
(***************************************************************************)
EmptyName(name) == Normalized[name] = <<>>

\* the names of a list whose normalized form is not empty
NonEmptyNames(names) == SelectSeq(names, LAMBDA n : ~EmptyName(n))

\* resolvePatient returned not found for the empty name
ResolveFindsNothing ==
  (ret.op = "resolve" /\ EmptyName(ret.name)) => ~ret.found

\* the Summary and Insurance tools returned their not-found payload
ToolsFindNothing ==
  (ret.op \in {"summary", "insurance"} /\ EmptyName(ret.name)) =>
     /\ ~ret.found
     /\ ret.payload = NotFoundPayload(ret.hospital, ret.name)

\* ingestion counted every item with an empty name as unmatched
IngestCountsUnmatched ==
  \A g \in IngestIds :
    (/\ ingest[g].st \in {"find", "write", "done"}
     /\ ingest[g].items # <<>>
     /\ \A i \in 1..Len(ingest[g].items) : EmptyName(ingest[g].items[i].patientName)) =>
       /\ ingest[g].st = "done"
       /\ ingest[g].processed = 0
       /\ ingest[g].unmatched = Len(ingest[g].items)

\* the empty names of a lookup contributed nothing to its result
LocateIgnoresEmpty ==
  ret.op = "locate" =>
    LocateGroups(patients, ret.doctorId, ret.name)
      = LocateGroups(patients, ret.doctorId, NonEmptyNames(ret.name))

\* C30 as claimed: a name whose normalized form is empty (only commas and
\* whitespace) matches no patient: resolvePatient returns not found, the
\* Summary and Insurance tools return their not-found payload, ingestion
\* counts the item as unmatched, and the lookup of the context resolver
\* contributes no match for it.
C30_EmptyNameMatchesNothing ==
  /\ ResolveFindsNothing
  /\ ToolsFindNothing
  /\ IngestCountsUnmatched
  /\ LocateIgnoresEmpty

\* what the code does with the empty name: resolvePatient and the tools find
\* a patient exactly when the pair has an active patient, and the lookup
\* returns every active patient of the doctor
C30_EmptyNameMatchesEveryone ==
  /\ (ret.op \in {"resolve", "summary", "insurance"} /\ EmptyName(ret.name)) =>
        (ret.found <=> ActiveOf(patients, ret.doctorId, ret.hospital) # {})
  /\ (ret.op = "locate" /\ \E i \in 1..Len(ret.name) : EmptyName(ret.name[i])) =>
        LocateGroups(patients, ret.doctorId, ret.name)
          = {<<p.emrSystem, p.name>> :
               p \in {q \in patients : q.doctorId = ret.doctorId /\ q.isActive}}

\* resolvePatient returned a patient for the empty name
C30_ResolveWitness ==
  ret.op = "resolve" /\ EmptyName(ret.name) /\ ret.found

\* the Summary tool returned a patient's payload for the empty name
C30_ToolWitness ==
  ret.op = "summary" /\ EmptyName(ret.name) /\ ret.found

\* an ingestion stored the text of an item with an empty name
C30_IngestWitness ==
  \E g \in IngestIds :
    /\ ingest[g].st = "done"
    /\ ingest[g].processed = 1
    /\ EmptyName(ingest[g].items[1].patientName)

\* the lookup of the empty name alone returned patients
C30_LocateWitness ==
  ret.op = "locate" /\ ret.name = <<NameEmpty>> /\ ret.found

\* with no active patient the empty name is not found
C30_NotFoundWitness ==
  ret.op = "resolve" /\ EmptyName(ret.name) /\ ~ret.found
====
